---------------------------- MODULE Spec2Model ----------------------------
(***************************************************************************)
(* A model of muc_banbot.py (class BanBot): the ban table, the occupant    *)
(* cache, the coroutines that enforce bans in the protected rooms, the     *)
(* reconciliation run and the expiry worker.                               *)
(*                                                                         *)
(* Strings the code takes apart (JIDs, nicknames, command targets) are     *)
(* sequences of one-character strings, so that str.lower(), str.split()    *)
(* and the "@" test are computed, not assumed.  None (and the empty        *)
(* string, equally falsy in Python) is the empty sequence.                 *)
(***************************************************************************)
EXTENDS Integers, Sequences, FiniteSets, TLC

(***************************************************************************)
(* Python string helpers                                                   *)
(***************************************************************************)
None == <<>>

\* str.lower() on one character (the alphabet of the model)
LowerChar(c) ==
    CASE c = "A" -> "a"
      [] c = "B" -> "b"
      [] c = "G" -> "g"
      [] OTHER -> c

\* str.lower()
Lower(s) == [i \in 1..Len(s) |-> LowerChar(s[i])]

\* `ch in s`
Contains(s, ch) == \E i \in 1..Len(s) : s[i] = ch

\* s.split(ch)[0]: the part before the first ch (all of s without one)
SplitFirst(s, ch) ==
    IF Contains(s, ch)
    THEN LET p == CHOOSE i \in 1..Len(s) :
                      s[i] = ch /\ \A j \in 1..(i - 1) : s[j] # ch
         IN  SubSeq(s, 1, p - 1)
    ELSE s

\* BanBot.bare_jid: jid.split("/")[0].lower() if jid else None
bare_jid(jid) == IF jid # None THEN Lower(SplitFirst(jid, "/")) ELSE None

\* the `"@" in identifier` test of ban_all, unban_all and cmd_why
is_jid(identifier) == Contains(identifier, "@")

\* bare_jid(jid_db).split("@")[0].lower(): the fallback of unban_all/cmd_why
local_part(jid_db) == Lower(SplitFirst(bare_jid(jid_db), "@"))


(***************************************************************************)
(* The values of the model                                                 *)
(***************************************************************************)
\* config.ADMIN_ROOM and the rooms table as loaded by setup_db
ADMIN_ROOM == "adm"
ProtectedRooms == {"r1", "r2"}
Rooms == ProtectedRooms \cup {ADMIN_ROOM}

\* JIDs as users and presences give them: a bare lower-case address, the
\* same account with a resource, the same account typed in upper case, and
\* a second account
JA    == <<"a", "@", "x">>
JAres == <<"a", "@", "x", "/", "r">>
JAup  == <<"A", "@", "x">>
JB    == <<"b", "@", "x">>

\* nicknames: two spellings of one name, and a name that equals the local
\* part of JA
NickG  == <<"g">>
NickGu == <<"G">>
NickA  == <<"a">>

\* muc affiliations the code tells apart ("member" and "outcast" are
\* handled like "none")
AdminAffiliations == {"owner", "admin"}

\* the default role a room gives an occupant of an affiliation
RoleOf(affiliation) ==
    IF affiliation \in AdminAffiliations THEN "moderator" ELSE "participant"

\* upper end of the clock (time.time() in the model's units)
MaxNow == 2
\* number of rows the ban table may hold in the model
MaxRows == 3
\* number of occupants one room may hold in the model
MaxOccupants == 2
\* number of "!ban" commands that write a row in the runs on nicknames
MaxBans == 2

\* asyncio.Semaphore(5)
Permits == 5
\* range(3): attempts of set_affiliation and of set_role("none")
BanAttempts == 3
\* range(3): attempts of set_affiliation("none") in apply_unban_to_room
UnbanAttempts == 3
\* range(2): attempts of set_role("participant") in apply_unban_to_room
RestoreAttempts == 2

(***************************************************************************)
(* The state                                                               *)
(***************************************************************************)
VARIABLES
    store,            \* table bans, rows in rowid order
    occupants,        \* self.occupants: room -> rows in dict insertion order
    outcast,          \* the rooms' outcast lists, held by the MUC service
    protected_rooms,  \* self.protected_rooms
    now,              \* time.time()
    sem,              \* self.muc_write_semaphore._value
    ban,              \* the running ban_all
    unban,            \* the running unban_all of a command and of the worker
    online,           \* the running muc_online handler
    sync,             \* the running sync_bans_to_rooms and its sync_room tasks
    worker,           \* unban_worker
    applyBan,         \* the running apply_ban_to_room coroutines
    applyUnban,       \* the running apply_unban_to_room coroutines
    calls,            \* history: the calls each request has issued, and
                      \* their results
    reply,            \* history: what the last command answered
    roomsync,         \* the running sync_bans_to_rooms_for_single_room
    notices,          \* history: the messages sent into protected rooms
    show_ban_in_muc,  \* self.show_ban_in_muc
    allow_user_cmds,  \* self.allow_user_cmds
    adminsync,        \* the running sync_admins
    listeners,        \* the rooms whose got_online / got_offline events have
                      \* muc_online / muc_offline as handlers
    rooms_table,      \* table rooms
    joined,           \* the rooms the bot has joined (join_muc / leave_muc)
    roomcmd,          \* the running cmd_room and the task it has created
    unban_errors      \* the apply_unban_to_room calls that raised into
                      \* unban_all, which logged them: <<owner, room>>

vars == <<store, occupants, outcast, protected_rooms, now, sem, ban, unban,
          online, sync, worker, applyBan, applyUnban, calls, reply, roomsync,
          notices, show_ban_in_muc, allow_user_cmds, adminsync, listeners,
          rooms_table, joined, roomcmd, unban_errors>>

\* the requests that issue outbound calls
Owners == {"ban", "cmd", "worker", "join", "sync", "room_add"}

(***************************************************************************)
(* The ban table (SQLite, one shared connection)                           *)
(***************************************************************************)
Row(jid, nick, until, issuer, comment) ==
    [jid |-> jid, nick |-> nick, until |-> until, issuer |-> issuer,
     comment |-> comment]

\* the rows of a sequence that satisfy Test, in order
RECURSIVE SelectSeq2(_, _)
SelectSeq2(s, keep) ==
    IF s = <<>> THEN <<>>
    ELSE IF Head(s) \in keep THEN <<Head(s)>> \o SelectSeq2(Tail(s), keep)
         ELSE SelectSeq2(Tail(s), keep)

\* first element of a sequence satisfying a test given as a set, or None
FirstIn(s, keep) ==
    IF \E i \in 1..Len(s) : s[i] \in keep
    THEN s[CHOOSE i \in 1..Len(s) :
               s[i] \in keep /\ \A j \in 1..(i - 1) : s[j] \notin keep]
    ELSE None

\* INSERT without the conflict clause: the new row is added, none goes
sql_insert_only(rows, r) == rows \o <<r>>

\* a REPLACE that is not committed when ban_all goes on
sql_replace_pending(rows, row) == rows

\* REPLACE INTO bans ... on CREATE TABLE bans (jid TEXT PRIMARY KEY, ...):
\* a row with an equal non-NULL jid is deleted, the new row gets a new
\* rowid; NULL jids never conflict with each other
sql_replace(rows, r) ==
    SelectSeq2(rows, {x \in {rows[i] : i \in 1..Len(rows)} :
                          ~(r.jid # None /\ x.jid = r.jid)}) \o <<r>>

\* whether INSERT INTO bans of a row would break the PRIMARY KEY
sql_conflict(rows, r) ==
    r.jid # None /\ \E i \in 1..Len(rows) : rows[i].jid = r.jid

\* SELECT ... FROM bans WHERE jid=?   (fetchone)
select_by_jid(rows, jid) ==
    FirstIn(rows, {x \in {rows[i] : i \in 1..Len(rows)} :
                       x.jid # None /\ x.jid = jid})

\* SELECT ... FROM bans WHERE LOWER(nick)=?   (fetchone); a NULL parameter
\* or a NULL nick compares to NULL and selects nothing
select_by_nick(rows, nick) ==
    FirstIn(rows, {x \in {rows[i] : i \in 1..Len(rows)} :
                       nick # None /\ x.nick # None /\ Lower(x.nick) = nick})

\* the "fallback nick-only check against JIDs": the first row whose JID has
\* the local part `name`
select_by_local_part(rows, name) ==
    FirstIn(rows, {x \in {rows[i] : i \in 1..Len(rows)} :
                       x.jid # None /\ local_part(x.jid) = name})

\* a DELETE that removes no row
sql_delete_nothing(rows, jid, nick) == rows

\* DELETE FROM bans WHERE jid=? OR LOWER(nick)=?
sql_delete_jid_or_nick(rows, jid, nick) ==
    SelectSeq2(rows, {x \in {rows[i] : i \in 1..Len(rows)} :
        ~(  (x.jid # None /\ x.jid = jid)
         \/ (nick # None /\ x.nick # None /\ Lower(x.nick) = nick))})

\* DELETE FROM bans WHERE LOWER(nick)=?
sql_delete_nick(rows, nick) ==
    SelectSeq2(rows, {x \in {rows[i] : i \in 1..Len(rows)} :
        ~(nick # None /\ x.nick # None /\ Lower(x.nick) = nick)})

\* an expiry test that leaves out the very second of the expiry
expired_strictly(until, t) == until > 0 /\ until < t

\* "until > 0 and until <= now": an expired temporary ban
expired(until, t) == until > 0 /\ until <= t

(***************************************************************************)
(* The occupant cache                                                      *)
(***************************************************************************)
Occupant(nick, jid, affiliation) ==
    [nick |-> nick, jid |-> jid, affiliation |-> affiliation,
     role |-> RoleOf(affiliation)]

\* self.occupants.get(room, {})
occupants_get(room) ==
    IF room \in DOMAIN occupants THEN occupants[room] ELSE <<>>

\* dict[nick] = info: an existing key keeps its place, a new one goes last
dict_set(d, info) ==
    IF \E i \in 1..Len(d) : d[i].nick = info.nick
    THEN [i \in 1..Len(d) |-> IF d[i].nick = info.nick THEN info ELSE d[i]]
    ELSE Append(d, info)

\* dict.pop(nick)
dict_pop(d, nick) ==
    SelectSeq2(d, {x \in {d[i] : i \in 1..Len(d)} : x.nick # nick})

\* `nick in dict`
dict_has(d, nick) == \E i \in 1..Len(d) : d[i].nick = nick

\* BanBot.is_admin_or_owner on the dict occ of the room: the first occupant
\* whose nickname or JID matches decides
is_admin_or_owner(occ, nick, jid) ==
    LET hit(i) == \/ (nick # None /\ Lower(occ[i].nick) = Lower(nick))
                  \/ (jid # None /\ occ[i].jid # None
                        /\ bare_jid(occ[i].jid) = bare_jid(jid))
    IN  IF \E i \in 1..Len(occ) : hit(i)
        THEN occ[CHOOSE i \in 1..Len(occ) :
                     hit(i) /\ \A j \in 1..(i - 1) : ~hit(j)].affiliation
                 \in AdminAffiliations
        ELSE FALSE

(***************************************************************************)
(* Outbound calls (plugin xep_0045) and their results                      *)
(***************************************************************************)
\* a result of set_affiliation / set_role: the answer, IqTimeout, IqError
IqResults == {"ok", "timeout", "rejected"}

Call(op, room, target, value) == <<op, room, target, value>>

\* how often the request has sent the call so far
sent_count(owner, c) ==
    Cardinality({e \in calls[owner] :
                    Len(e) = 6 /\ <<e[1], e[2], e[3], e[4]>> = c})

\* the n-th sending of a call
Sent(c, n) == <<c[1], c[2], c[3], c[4], "sent", n>>

\* the history of a request gains a call, sent once more
Issued(owner, c) ==
    [calls EXCEPT ![owner] = @ \cup {c, Sent(c, sent_count(owner, c) + 1)}]

\* the history of a request gains the result of a call
Answer(c, res) == <<c[1], c[2], c[3], c[4], res>>
Answered(owner, c, res) == [calls EXCEPT ![owner] = @ \cup {Answer(c, res)}]

\* the service applies set_affiliation(room, jid, affiliation)
outcast_after(room, jid, affiliation) ==
    [outcast EXCEPT ![room] =
        IF affiliation = "outcast" THEN @ \cup {jid} ELSE @ \ {jid}]

(***************************************************************************)
(* apply_ban_to_room                                                       *)
(*   a running coroutine is a record                                       *)
(*     owner, room, k : the request that awaits it, its room, and its      *)
(*                      place in the request's task list                   *)
(*     jid, nick      : ban_jid_bare, ban_nick                             *)
(*     live           : room_occupants is self.occupants[room] (the room   *)
(*                      had an entry) and not a fresh {}                   *)
(*     pc, attempt    : where it is, and the attempt of the loop of step 1 *)
(*     kicks          : the kick_nick tasks of its gather still running    *)
(***************************************************************************)
\* room_occupants of a running apply_ban_to_room
ab_occupants(a) == IF a.live THEN occupants_get(a.room) ELSE <<>>

\* the test of kick_nick: the occupant matches the ban
kick_matches(a, o) ==
    \/ (a.jid # None /\ o.jid # None /\ bare_jid(o.jid) = a.jid)
    \/ (a.nick # None /\ Lower(o.nick) = Lower(a.nick))

\* the occupants kick_nick goes on to kick: matching, not owner or admin
kick_targets(a) ==
    LET occ == ab_occupants(a)
    IN  {occ[i].nick : i \in {j \in 1..Len(occ) :
             kick_matches(a, occ[j])
             /\ occ[j].affiliation \notin AdminAffiliations}}

\* step 3: "if ban_nick and ban_nick not in room_occupants"
step3_applies(a) == a.nick # None /\ ~dict_has(ab_occupants(a), a.nick)

\* after the gather of step 2: step 3, or the coroutine is over
ab_after_gather(a) ==
    IF step3_applies(a)
    THEN {[a EXCEPT !.pc = "step3", !.kicks = {}, !.attempt = 0]}
    ELSE {}

\* apply_ban_to_room given up for the room once step 1 is over
ab_gives_up(a) == {}

\* after step 1: the kick_nick tasks that have work are gathered
ab_after_step1(a) ==
    IF kick_targets(a) # {}
    THEN {[a EXCEPT !.pc = "gather", !.attempt = 0,
                    !.kicks = {[nick |-> n, pc |-> "acquire", attempt |-> 0] :
                                   n \in kick_targets(a)}]}
    ELSE ab_after_gather(a)

\* "display = ban_jid_bare or ban_nick or 'Unknown'"
Unknown == <<"U", "n", "k", "n", "o", "w", "n">>

\* step 4, "Notifications", for a room other than ADMIN_ROOM: the message
\* notify_protected sends into the room, if any
ban_notice(a) ==
    IF a.room # ADMIN_ROOM /\ a.room \in protected_rooms /\ allow_user_cmds
       /\ show_ban_in_muc
    THEN {[room |-> a.room, event |-> "banned",
           display |-> IF a.jid # None THEN a.jid
                       ELSE IF a.nick # None THEN a.nick ELSE Unknown]}
    ELSE {}

\* the messages a step of the coroutine a sends: it goes on as `next`, and
\* step 4 follows the last await with no await in between
ab_notices(a, next) == IF next = {} THEN ban_notice(a) ELSE {}

\* the coroutine of apply_ban_to_room(room, ban_jid, ban_nick, ...) as it
\* begins
ab_call(owner, room, k, ban_jid, ban_nick) ==
    [owner |-> owner, room |-> room, k |-> k,
     jid |-> bare_jid(ban_jid), nick |-> ban_nick,
     live |-> room \in DOMAIN occupants,
     pc |-> "step1", attempt |-> 0, kicks |-> {}]

\* the call apply_ban_to_room(room, ban_jid, ban_nick, ...), up to its first
\* await
apply_ban_to_room(owner, room, k, ban_jid, ban_nick) ==
    LET a == ab_call(owner, room, k, ban_jid, ban_nick)
    IN  IF a.jid # None THEN {a} ELSE ab_after_step1(a)


\* the messages of an apply_ban_to_room that is over before its first await
ab_call_notices(owner, room, k, ban_jid, ban_nick) ==
    ab_notices(ab_call(owner, room, k, ban_jid, ban_nick),
               apply_ban_to_room(owner, room, k, ban_jid, ban_nick))
\* the semaphore as a plain counter that never blocks
acquire_permit_unguarded == TRUE

\* "async with self.muc_write_semaphore" can be entered: a permit is free
acquire_permit == sem > 0

\* a permit that is given back only when the call was answered
release_permit_on_success(res) == IF res = "ok" THEN sem + 1 ELSE sem

\* the end of "async with self.muc_write_semaphore", whatever the call
\* returned or raised: the permit is given back
release_permit(res) == sem + 1

\* a failure the loops over range(3) go round again for
retry_on_any_failure(res) == res # "ok"

\* "except IqTimeout: ... await asyncio.sleep(1)": the loops over range(3)
\* go round again for a timeout, and only for a timeout
retried(res) == res = "timeout"

\* step 1: the semaphore is entered and
\* set_affiliation(room, ban_jid_bare, "outcast") is sent
set_outcast_send ==
    \E a \in applyBan :
        /\ a.pc = "step1"
        /\ acquire_permit
        /\ sem' = sem - 1
        /\ applyBan' = (applyBan \ {a}) \cup {[a EXCEPT !.pc = "fly1"]}
        /\ calls' = Issued(a.owner, Call("aff", a.room, a.jid, "outcast"))
        /\ UNCHANGED <<store, occupants, outcast, protected_rooms, now, ban,
                       unban, online, sync, worker, applyUnban, reply,
                       roomsync, notices, show_ban_in_muc, allow_user_cmds,
                       adminsync, listeners, rooms_table, joined, roomcmd,
                       unban_errors>>

\* step 1: the call returns; the permit is released; ok and IqError leave
\* the loop, IqTimeout sleeps
set_outcast_returns(results) ==
    \E a \in applyBan, res \in results :
        /\ a.pc = "fly1"
        /\ sem' = release_permit(res)
        /\ outcast' = IF res = "ok"
                      THEN outcast_after(a.room, a.jid, "outcast")
                      ELSE outcast
        /\ LET next == IF retried(res) THEN {[a EXCEPT !.pc = "sleep1"]}
                       ELSE ab_after_step1(a)
           IN  /\ applyBan' = (applyBan \ {a}) \cup next
               /\ notices' = notices \cup ab_notices(a, next)
        /\ calls' = Answered(a.owner,
                             Call("aff", a.room, a.jid, "outcast"), res)
        /\ UNCHANGED <<store, occupants, protected_rooms, now, ban, unban,
                       online, sync, worker, applyUnban, reply, roomsync,
                       show_ban_in_muc, allow_user_cmds, adminsync, listeners,
                       rooms_table, joined, roomcmd, unban_errors>>

\* step 1: asyncio.sleep(1) is over; the next attempt, or the loop is
\* exhausted
set_outcast_retry ==
    \E a \in applyBan :
        /\ a.pc = "sleep1"
        /\ LET next == IF a.attempt + 1 < BanAttempts
                       THEN {[a EXCEPT !.pc = "step1",
                                       !.attempt = a.attempt + 1]}
                       ELSE ab_after_step1(a)
           IN  /\ applyBan' = (applyBan \ {a}) \cup next
               /\ notices' = notices \cup ab_notices(a, next)
        /\ UNCHANGED <<store, occupants, outcast, protected_rooms, now, sem,
                       ban, unban, online, sync, worker, applyUnban, calls,
                       reply, roomsync, show_ban_in_muc, allow_user_cmds,
                       adminsync, listeners, rooms_table, joined, roomcmd,
                       unban_errors>>

\* a kick_nick task is over: it leaves the gather, and the last one to
\* leave lets apply_ban_to_room go on
ab_kick_done(a, kk) ==
    IF a.kicks = {kk} THEN ab_after_gather(a)
    ELSE {[a EXCEPT !.kicks = a.kicks \ {kk}]}

ab_kick_set(a, kk, new) == [a EXCEPT !.kicks = (a.kicks \ {kk}) \cup {new}]

\* kick_nick: set_role(room, nick, "none") is sent under the semaphore
kick_nick_send ==
    \E a \in applyBan :
        /\ a.pc = "gather"
        /\ \E kk \in a.kicks :
            /\ kk.pc = "acquire"
            /\ acquire_permit
            /\ sem' = sem - 1
            /\ applyBan' = (applyBan \ {a}) \cup
                    {ab_kick_set(a, kk, [kk EXCEPT !.pc = "fly"])}
            /\ calls' = Issued(a.owner, Call("role", a.room, kk.nick, "none"))
        /\ UNCHANGED <<store, occupants, outcast, protected_rooms, now, ban,
                       unban, online, sync, worker, applyUnban, reply,
                       roomsync, notices, show_ban_in_muc, allow_user_cmds,
                       adminsync, listeners, rooms_table, joined, roomcmd,
                       unban_errors>>

\* kick_nick: the call returns
kick_nick_returns(results) ==
    \E a \in applyBan, res \in results :
        /\ a.pc = "gather"
        /\ \E kk \in a.kicks :
            /\ kk.pc = "fly"
            /\ sem' = release_permit(res)
            /\ calls' = Answered(a.owner,
                                 Call("role", a.room, kk.nick, "none"), res)
            /\ LET next == IF retried(res)
                           THEN {ab_kick_set(a, kk,
                                             [kk EXCEPT !.pc = "sleep"])}
                           ELSE ab_kick_done(a, kk)
               IN  /\ applyBan' = (applyBan \ {a}) \cup next
                   /\ notices' = notices \cup ab_notices(a, next)
        /\ UNCHANGED <<store, occupants, outcast, protected_rooms, now, ban,
                       unban, online, sync, worker, applyUnban, reply,
                       roomsync, show_ban_in_muc, allow_user_cmds, adminsync,
                       listeners, rooms_table, joined, roomcmd, unban_errors>>

\* kick_nick: asyncio.sleep(1) is over
kick_nick_retry ==
    \E a \in applyBan :
        /\ a.pc = "gather"
        /\ \E kk \in a.kicks :
            /\ kk.pc = "sleep"
            /\ LET next == IF kk.attempt + 1 < BanAttempts
                           THEN {ab_kick_set(a, kk,
                                     [kk EXCEPT !.pc = "acquire",
                                                !.attempt = kk.attempt + 1])}
                           ELSE ab_kick_done(a, kk)
               IN  /\ applyBan' = (applyBan \ {a}) \cup next
                   /\ notices' = notices \cup ab_notices(a, next)
        /\ UNCHANGED <<store, occupants, outcast, protected_rooms, now, sem,
                       ban, unban, online, sync, worker, applyUnban, calls,
                       reply, roomsync, show_ban_in_muc, allow_user_cmds,
                       adminsync, listeners, rooms_table, joined, roomcmd,
                       unban_errors>>

\* step 3: the best-effort set_role(room, ban_nick, "none") is sent
best_effort_kick_send ==
    \E a \in applyBan :
        /\ a.pc = "step3"
        /\ acquire_permit
        /\ sem' = sem - 1
        /\ applyBan' = (applyBan \ {a}) \cup {[a EXCEPT !.pc = "fly3"]}
        /\ calls' = Issued(a.owner, Call("role", a.room, a.nick, "none"))
        /\ UNCHANGED <<store, occupants, outcast, protected_rooms, now, ban,
                       unban, online, sync, worker, applyUnban, reply,
                       roomsync, notices, show_ban_in_muc, allow_user_cmds,
                       adminsync, listeners, rooms_table, joined, roomcmd,
                       unban_errors>>

\* step 3: the call returns; "except Exception: pass"
best_effort_kick_returns(results) ==
    \E a \in applyBan, res \in results :
        /\ a.pc = "fly3"
        /\ sem' = release_permit(res)
        /\ applyBan' = applyBan \ {a}
        /\ notices' = notices \cup ban_notice(a)
        /\ calls' = Answered(a.owner,
                             Call("role", a.room, a.nick, "none"), res)
        /\ UNCHANGED <<store, occupants, outcast, protected_rooms, now, ban,
                       unban, online, sync, worker, applyUnban, reply,
                       roomsync, show_ban_in_muc, allow_user_cmds, adminsync,
                       listeners, rooms_table, joined, roomcmd, unban_errors>>

\* the apply_ban_to_room coroutines a request still awaits
awaited(owner, room) == {a \in applyBan : a.owner = owner /\ a.room = room}

(***************************************************************************)
(* muc_online / muc_offline                                                *)
(***************************************************************************)
OnlineIdle ==
    [pc |-> "idle", room |-> "", nick |-> None, jid |-> None, now |-> 0]

\* self.occupants.setdefault(room, {})[nick] = {...}
occupants_set(room, info) ==
    [r \in DOMAIN occupants \cup {room} |->
        IF r = room THEN dict_set(occupants_get(room), info)
        ELSE occupants[r]]

\* muc_online up to its first await: the cache is updated; an owner or
\* admin is skipped; otherwise the SELECT of the bans is awaited.  One
\* handler that awaits runs at a time.
muc_online(room, nick, jid, affiliation) ==
    LET occ2 == occupants_set(room, Occupant(nick, jid, affiliation))
        skip == is_admin_or_owner(occ2[room], nick, jid)
        free == online.pc \in {"idle", "done", "skipped"}
    IN  /\ room \in listeners
        /\ Len(occ2[room]) <= MaxOccupants
        /\ skip \/ free
        /\ occupants' = occ2
        /\ online' = IF free
                     THEN [pc |-> IF skip THEN "skipped" ELSE "fetch",
                           room |-> room, nick |-> nick, jid |-> jid,
                           now |-> now]
                     ELSE online
        /\ calls' = IF free THEN [calls EXCEPT !["join"] = {}] ELSE calls
        /\ UNCHANGED <<store, outcast, protected_rooms, now, sem, ban, unban,
                       sync, worker, applyBan, applyUnban, reply, roomsync,
                       notices, show_ban_in_muc, allow_user_cmds, adminsync,
                       listeners, rooms_table, joined, roomcmd, unban_errors>>

\* "match_jid or match_nick" of muc_online
online_matches(row, nick, jid) ==
    \/ (row.jid # None /\ jid # None /\ bare_jid(jid) = bare_jid(row.jid))
    \/ (row.nick # None /\ Lower(nick) = Lower(row.nick))

\* muc_online: the bans are fetched; one apply_ban_to_room per ban that is
\* not expired and matches is gathered
muc_online_fetch ==
    /\ online.pc = "fetch"
    /\ LET todo == {i \in 1..Len(store) :
                       /\ ~expired(store[i].until, online.now)
                       /\ online_matches(store[i], online.nick, online.jid)}
           new == UNION {apply_ban_to_room("join", online.room, i,
                                           store[i].jid, store[i].nick) :
                             i \in todo}
       IN  /\ applyBan' = applyBan \cup new
           /\ notices' = notices \cup
                  UNION {ab_call_notices("join", online.room, i,
                                         store[i].jid, store[i].nick) :
                             i \in todo}
           /\ online' = [online EXCEPT
                            !.pc = IF new = {} THEN "done" ELSE "gather"]
    /\ UNCHANGED <<store, occupants, outcast, protected_rooms, now, sem, ban,
                   unban, sync, worker, applyUnban, calls, reply, roomsync,
                   show_ban_in_muc, allow_user_cmds, adminsync, listeners,
                   rooms_table, joined, roomcmd, unban_errors>>

\* muc_online: the gather is over
muc_online_done ==
    /\ online.pc = "gather"
    /\ awaited("join", online.room) = {}
    /\ online' = [online EXCEPT !.pc = "done"]
    /\ UNCHANGED <<store, occupants, outcast, protected_rooms, now, sem, ban,
                   unban, sync, worker, applyBan, applyUnban, calls, reply,
                   roomsync, notices, show_ban_in_muc, allow_user_cmds,
                   adminsync, listeners, rooms_table, joined, roomcmd,
                   unban_errors>>

\* position of nick in a dict, 0 when absent
dict_index(d, nick) ==
    IF dict_has(d, nick) THEN CHOOSE i \in 1..Len(d) : d[i].nick = nick ELSE 0

\* muc_offline: room_occ.pop(nick).  An iterator of apply_unban_to_room
\* over this dict keeps its place among the entries that remain.
muc_offline(room, nick) ==
    /\ room \in listeners
    /\ room \in DOMAIN occupants
    /\ dict_has(occupants[room], nick)
    /\ occupants' = [occupants EXCEPT ![room] = dict_pop(@, nick)]
    /\ applyUnban' =
          {IF u.room = room /\ u.live /\ u.pc \in {"step2", "fly2", "sleep2"}
              /\ dict_index(occupants[room], nick) <= u.pos
           THEN [u EXCEPT !.pos = u.pos - 1] ELSE u : u \in applyUnban}
    /\ UNCHANGED <<store, outcast, protected_rooms, now, sem, ban, unban,
                   online, sync, worker, applyBan, calls, reply, roomsync,
                   notices, show_ban_in_muc, allow_user_cmds, adminsync,
                   listeners, rooms_table, joined, roomcmd, unban_errors>>

(***************************************************************************)
(* ban_all                                                                 *)
(***************************************************************************)
\* `until` of a permanent ban (None)
NoUntil == -1

BanIdle ==
    [pc |-> "idle", identifier |-> None, until |-> NoUntil, issuer |-> "",
     comment |-> "", jid |-> None, nick |-> None, visited |-> {},
     room |-> ""]

\* first occupant of a dict that satisfies a test given as a set, or None
first_occupant(d, keep) == FirstIn(d, keep)

\* "Find JID if only Nick provided": the JID of the first occupant of that
\* nickname with a JID, in the first room that has one.  The order of the
\* rooms in self.occupants is the order of their first presence, so each
\* room's first match is a possible result.
resolve_jid(ban_nick) ==
    LET found(r) == first_occupant(occupants[r],
                        {o \in {occupants[r][i] : i \in 1..Len(occupants[r])} :
                            Lower(o.nick) = ban_nick /\ o.jid # None})
        hits == {found(r).jid : r \in {q \in DOMAIN occupants : found(q) # None}}
    IN  IF hits = {} THEN {None} ELSE hits

\* "Find Nick if only JID provided"
resolve_nick(ban_jid_bare) ==
    LET found(r) == first_occupant(occupants[r],
                        {o \in {occupants[r][i] : i \in 1..Len(occupants[r])} :
                            o.jid # None /\ bare_jid(o.jid) = ban_jid_bare})
        hits == {Lower(found(r).nick) :
                     r \in {q \in DOMAIN occupants : found(q) # None}}
    IN  IF hits = {} THEN {None} ELSE hits

\* the guard of ban_all over the protected rooms only
ban_refused_protected_rooms(ban_jid_bare, ban_nick) ==
    \E r \in DOMAIN occupants \cap protected_rooms :
        \E i \in 1..Len(occupants[r]) :
            LET o == occupants[r][i]
            IN  /\ \/ (ban_jid_bare # None /\ bare_jid(o.jid) = ban_jid_bare)
                   \/ (ban_nick # None /\ Lower(o.nick) = ban_nick)
                /\ o.affiliation \in AdminAffiliations

\* "Prevent banning admins/owners": some occupant of some room of the cache
\* matches the JID or the nickname and is owner or admin
ban_refused(ban_jid_bare, ban_nick) ==
    \E r \in DOMAIN occupants : \E i \in 1..Len(occupants[r]) :
        LET o == occupants[r][i]
        IN  /\ \/ (ban_jid_bare # None /\ bare_jid(o.jid) = ban_jid_bare)
               \/ (ban_nick # None /\ Lower(o.nick) = ban_nick)
            /\ o.affiliation \in AdminAffiliations

\* ban_all up to its first await: the target is resolved, the guard is
\* evaluated, and the REPLACE is awaited or the ban is refused
ban_all(identifier, until, issuer, comment) ==
    /\ ban.pc \in {"idle", "done", "refused"}
    /\ LET jid0 == IF is_jid(identifier) THEN identifier ELSE None
           nick0 == IF is_jid(identifier) THEN None ELSE Lower(identifier)
       IN  \E jid1 \in (IF nick0 # None /\ jid0 = None
                        THEN resolve_jid(nick0) ELSE {jid0}) :
           \E nick1 \in (IF jid1 # None /\ nick0 = None
                         THEN resolve_nick(bare_jid(jid1)) ELSE {nick0}) :
               ban' = [pc |-> IF ban_refused(bare_jid(jid1), nick1)
                              THEN "refused" ELSE "save",
                       identifier |-> identifier, until |-> until,
                       issuer |-> issuer, comment |-> comment,
                       jid |-> bare_jid(jid1), nick |-> nick1,
                       visited |-> {}, room |-> ""]
    /\ calls' = [calls EXCEPT !["ban"] = {}]
    /\ UNCHANGED <<store, occupants, outcast, protected_rooms, now, sem,
                   unban, online, sync, worker, applyBan, applyUnban, reply,
                   roomsync, notices, show_ban_in_muc, allow_user_cmds,
                   adminsync, listeners, rooms_table, joined, roomcmd,
                   unban_errors>>

\* "ts = until if until is not None else 0"
ban_ts(until) == IF until = NoUntil THEN 0 ELSE until

\* ban_all: "REPLACE INTO bans ..." and the commit
ban_all_save ==
    /\ ban.pc = "save"
    /\ LET rows == sql_replace(store, Row(ban.jid, ban.nick, ban_ts(ban.until),
                                          ban.issuer, ban.comment))
       IN  /\ Len(rows) <= MaxRows
           /\ store' = rows
    /\ ban' = [ban EXCEPT !.pc = "rooms"]
    /\ UNCHANGED <<occupants, outcast, protected_rooms, now, sem, unban,
                   online, sync, worker, applyBan, applyUnban, calls, reply,
                   roomsync, notices, show_ban_in_muc, allow_user_cmds,
                   adminsync, listeners, rooms_table, joined, roomcmd,
                   unban_errors>>

\* ban_all: "for room in self.protected_rooms: await apply_ban_to_room(...)",
\* the next room of the loop, or the loop is over
ban_all_next_room ==
    /\ ban.pc = "rooms"
    /\ IF protected_rooms \subseteq ban.visited
       THEN /\ ban' = [ban EXCEPT !.pc = "done"]
            /\ UNCHANGED <<applyBan, notices>>
       ELSE \E room \in protected_rooms \ ban.visited :
            LET new == apply_ban_to_room("ban", room, 0, ban.jid, ban.nick)
            IN  /\ applyBan' = applyBan \cup new
                /\ notices' = notices \cup
                       ab_call_notices("ban", room, 0, ban.jid, ban.nick)
                /\ ban' = [ban EXCEPT !.pc = "wait", !.room = room]
    /\ UNCHANGED <<store, occupants, outcast, protected_rooms, now, sem,
                   unban, online, sync, worker, applyUnban, calls, reply,
                   roomsync, show_ban_in_muc, allow_user_cmds, adminsync,
                   listeners, rooms_table, joined, roomcmd, unban_errors>>

\* ban_all: apply_ban_to_room of the room has returned
ban_all_room_done ==
    /\ ban.pc = "wait"
    /\ awaited("ban", ban.room) = {}
    /\ ban' = [ban EXCEPT !.pc = "rooms", !.visited = @ \cup {ban.room}]
    /\ UNCHANGED <<store, occupants, outcast, protected_rooms, now, sem,
                   unban, online, sync, worker, applyBan, applyUnban, calls,
                   reply, roomsync, notices, show_ban_in_muc, allow_user_cmds,
                   adminsync, listeners, rooms_table, joined, roomcmd,
                   unban_errors>>

(***************************************************************************)
(* apply_unban_to_room                                                     *)
(*   a running coroutine is a record                                       *)
(*     owner, room : the unban_all that awaits it ("cmd" or "worker")      *)
(*     jid, nick   : ban_jid, ban_nick                                     *)
(*     pc, attempt : where it is, and the attempt of the current loop      *)
(*     live, size, pos, cur : the iteration of step 2 over room_occupants: *)
(*                   whether the dict is self.occupants[room], its size    *)
(*                   when the iteration began, the entries consumed, and   *)
(*                   the nickname being restored                           *)
(*     seen        : the items the iterator has returned                   *)
(***************************************************************************)
au_occupants(u) == IF u.live THEN occupants_get(u.room) ELSE <<>>

\* the test of step 2: the occupant matches the unbanned user
restore_matches(u, o) ==
    \/ (u.jid # None /\ o.jid # None /\ bare_jid(o.jid) = bare_jid(u.jid))
    \/ (u.nick # None /\ Lower(o.nick) = u.nick)

\* "for nick, info in room_occupants.items()": the next occupant that
\* matches, or the loop (and the coroutine) is over.  A dict whose size has
\* changed since the iteration began raises RuntimeError, and so does a
\* dict of that size with an entry left when the iterator has returned as
\* many items as the dict had; either ends the coroutine as well.
RECURSIVE au_advance(_)
au_advance(u) ==
    LET occ == au_occupants(u)
    IN  IF Len(occ) # u.size \/ u.pos >= Len(occ) \/ u.seen >= u.size THEN {}
        ELSE IF restore_matches(u, occ[u.pos + 1])
             THEN {[u EXCEPT !.pc = "step2", !.attempt = 0,
                             !.pos = u.pos + 1, !.seen = u.seen + 1,
                             !.cur = occ[u.pos + 1].nick]}
             ELSE au_advance([u EXCEPT !.pos = u.pos + 1,
                                       !.seen = u.seen + 1])

\* whether that loop ends with the RuntimeError of the iterator
RECURSIVE au_raises(_)
au_raises(u) ==
    LET occ == au_occupants(u)
    IN  IF Len(occ) # u.size THEN TRUE
        ELSE IF u.pos >= Len(occ) THEN FALSE
        ELSE IF u.seen >= u.size THEN TRUE
        ELSE IF restore_matches(u, occ[u.pos + 1]) THEN FALSE
        ELSE au_raises([u EXCEPT !.pos = u.pos + 1, !.seen = u.seen + 1])

\* whether that loop ends without an exception, so that step 3 follows
au_loop_end(u) == au_advance(u) = {} /\ ~au_raises(u)

\* "except Exception as e: log.warning(...)" of unban_all, for the
\* RuntimeError of a loop taken up at u
au_errors(u) == IF au_raises(u) THEN {<<u.owner, u.room>>} ELSE {}

\* step 3, "Notifications", for a room other than ADMIN_ROOM: the message
\* notify_protected sends into the room, if any
unban_notice(u) ==
    IF u.room # ADMIN_ROOM /\ allow_user_cmds /\ show_ban_in_muc
    THEN {[room |-> u.room, event |-> "unbanned",
           display |-> IF u.nick # None THEN u.nick ELSE Unknown]}
    ELSE {}

\* the messages a step of the coroutine sends that takes up the loop of
\* step 2 at u
au_notices(u) == IF au_loop_end(u) THEN unban_notice(u) ELSE {}

\* the coroutine as step 2 begins:
\* "room_occupants = self.occupants.get(room, {})"
au_enter_step2(u) ==
    [u EXCEPT !.live = u.room \in DOMAIN occupants,
              !.size = Len(occupants_get(u.room)),
              !.pos = 0, !.seen = 0, !.attempt = 0]
\* step 2 begins: the first occupant that matches, if any
au_step2(u) ==
    au_advance(au_enter_step2(u))

\* the coroutine of apply_unban_to_room(room, ban_jid, ban_nick) as it begins
au_call(owner, room, ban_jid, ban_nick) ==
    [owner |-> owner, room |-> room, jid |-> ban_jid, nick |-> ban_nick,
     pc |-> "step1", attempt |-> 0, live |-> FALSE, size |-> 0, pos |-> 0,
     seen |-> 0, cur |-> None]

\* the call apply_unban_to_room(room, ban_jid, ban_nick), up to its first
\* await
apply_unban_to_room(owner, room, ban_jid, ban_nick) ==
    LET u == au_call(owner, room, ban_jid, ban_nick)
    IN  IF ban_jid # None THEN {u} ELSE au_step2(u)


\* the messages of an apply_unban_to_room that is over before its first
\* await
au_call_notices(owner, room, ban_jid, ban_nick) ==
    IF ban_jid # None THEN {}
    ELSE au_notices(au_enter_step2(au_call(owner, room, ban_jid, ban_nick)))
\* step 1: set_affiliation(room, bare, "none") is sent under the semaphore
clear_outcast_send ==
    \E u \in applyUnban :
        /\ u.pc = "step1"
        /\ acquire_permit
        /\ sem' = sem - 1
        /\ applyUnban' = (applyUnban \ {u}) \cup {[u EXCEPT !.pc = "fly1"]}
        /\ calls' = Issued(u.owner,
                           Call("aff", u.room, bare_jid(u.jid), "none"))
        /\ UNCHANGED <<store, occupants, outcast, protected_rooms, now, ban,
                       unban, online, sync, worker, applyBan, reply, roomsync,
                       notices, show_ban_in_muc, allow_user_cmds, adminsync,
                       listeners, rooms_table, joined, roomcmd, unban_errors>>

\* step 1: the call returns; IqTimeout sleeps, IqError is caught by the
\* outer handler and ends the coroutine
clear_outcast_returns(results) ==
    \E u \in applyUnban, res \in results :
        /\ u.pc = "fly1"
        /\ sem' = release_permit(res)
        /\ outcast' = IF res = "ok"
                      THEN outcast_after(u.room, bare_jid(u.jid), "none")
                      ELSE outcast
        /\ notices' = notices \cup
                (IF res = "ok" THEN au_notices(au_enter_step2(u)) ELSE {})
        /\ applyUnban' = (applyUnban \ {u}) \cup
                (CASE res = "ok" -> au_step2(u)
                   [] res = "timeout" -> {[u EXCEPT !.pc = "sleep1"]}
                   [] OTHER -> {})
        /\ calls' = Answered(u.owner,
                Call("aff", u.room, bare_jid(u.jid), "none"), res)
        /\ UNCHANGED <<store, occupants, protected_rooms, now, ban, unban,
                       online, sync, worker, applyBan, reply, roomsync,
                       show_ban_in_muc, allow_user_cmds, adminsync, listeners,
                       rooms_table, joined, roomcmd, unban_errors>>

\* step 1: asyncio.sleep(1) is over
clear_outcast_retry ==
    \E u \in applyUnban :
        /\ u.pc = "sleep1"
        /\ notices' = notices \cup
                (IF u.attempt + 1 >= UnbanAttempts
                 THEN au_notices(au_enter_step2(u)) ELSE {})
        /\ applyUnban' = (applyUnban \ {u}) \cup
                (IF u.attempt + 1 < UnbanAttempts
                 THEN {[u EXCEPT !.pc = "step1", !.attempt = u.attempt + 1]}
                 ELSE au_step2(u))
        /\ UNCHANGED <<store, occupants, outcast, protected_rooms, now, sem,
                       ban, unban, online, sync, worker, applyBan, calls,
                       reply, roomsync, show_ban_in_muc, allow_user_cmds,
                       adminsync, listeners, rooms_table, joined, roomcmd,
                       unban_errors>>

\* step 2: set_role(room, nick, "participant") is sent under the semaphore
restore_role_send ==
    \E u \in applyUnban :
        /\ u.pc = "step2"
        /\ acquire_permit
        /\ sem' = sem - 1
        /\ applyUnban' = (applyUnban \ {u}) \cup {[u EXCEPT !.pc = "fly2"]}
        /\ calls' = Issued(u.owner,
                           Call("role", u.room, u.cur, "participant"))
        /\ UNCHANGED <<store, occupants, outcast, protected_rooms, now, ban,
                       unban, online, sync, worker, applyBan, reply, roomsync,
                       notices, show_ban_in_muc, allow_user_cmds, adminsync,
                       listeners, rooms_table, joined, roomcmd, unban_errors>>

\* step 2: the call returns
restore_role_returns(results) ==
    \E u \in applyUnban, res \in results :
        /\ u.pc = "fly2"
        /\ sem' = release_permit(res)
        /\ notices' = notices \cup
                (IF res = "ok" THEN au_notices(u) ELSE {})
        /\ applyUnban' = (applyUnban \ {u}) \cup
                (CASE res = "ok" -> au_advance(u)
                   [] res = "timeout" -> {[u EXCEPT !.pc = "sleep2"]}
                   [] OTHER -> {})
        /\ unban_errors' = unban_errors \cup
                (IF res = "ok" THEN au_errors(u) ELSE {})
        /\ calls' = Answered(u.owner,
                Call("role", u.room, u.cur, "participant"), res)
        /\ UNCHANGED <<store, occupants, outcast, protected_rooms, now, ban,
                       unban, online, sync, worker, applyBan, reply, roomsync,
                       show_ban_in_muc, allow_user_cmds, adminsync, listeners,
                       rooms_table, joined, roomcmd>>

\* step 2: asyncio.sleep(1) is over
restore_role_retry ==
    \E u \in applyUnban :
        /\ u.pc = "sleep2"
        /\ notices' = notices \cup
                (IF u.attempt + 1 >= RestoreAttempts
                 THEN au_notices(u) ELSE {})
        /\ applyUnban' = (applyUnban \ {u}) \cup
                (IF u.attempt + 1 < RestoreAttempts
                 THEN {[u EXCEPT !.pc = "step2", !.attempt = u.attempt + 1]}
                 ELSE au_advance(u))
        /\ unban_errors' = unban_errors \cup
                (IF u.attempt + 1 >= RestoreAttempts
                 THEN au_errors(u) ELSE {})
        /\ UNCHANGED <<store, occupants, outcast, protected_rooms, now, sem,
                       ban, unban, online, sync, worker, applyBan, calls,
                       reply, roomsync, show_ban_in_muc, allow_user_cmds,
                       adminsync, listeners, rooms_table, joined, roomcmd>>

(***************************************************************************)
(* unban_all                                                               *)
(***************************************************************************)
UnbanIdle ==
    [pc |-> "idle", identifier |-> None, issuer |-> "", row |-> None,
     visited |-> {}, room |-> ""]

\* unban_all(identifier, issuer) up to its first await: the first SELECT
unban_all_called(identifier, issuer) ==
    [pc |-> IF is_jid(identifier) THEN "lookup_jid" ELSE "lookup_nick",
     identifier |-> identifier, issuer |-> issuer, row |-> None,
     visited |-> {}, room |-> ""]

\* the command "!unban <jid|nick>"
unban_all(identifier, issuer) ==
    /\ unban["cmd"].pc \in {"idle", "done", "raised"}
    /\ identifier # None
    /\ unban' = [unban EXCEPT !["cmd"] = unban_all_called(identifier, issuer)]
    /\ calls' = [calls EXCEPT !["cmd"] = {}]
    /\ UNCHANGED <<store, occupants, outcast, protected_rooms, now, sem, ban,
                   online, sync, worker, applyBan, applyUnban, reply,
                   roomsync, notices, show_ban_in_muc, allow_user_cmds,
                   adminsync, listeners, rooms_table, joined, roomcmd,
                   unban_errors>>

\* "Lookup JID in DB": SELECT jid, nick FROM bans WHERE jid=identifier
unban_lookup_jid(w) ==
    /\ unban[w].pc = "lookup_jid"
    /\ LET row == select_by_jid(store, unban[w].identifier)
       IN  unban' = [unban EXCEPT ![w].row = row,
                        ![w].pc = IF row # None THEN "delete"
                                  ELSE "lookup_nick"]
    /\ UNCHANGED <<store, occupants, outcast, protected_rooms, now, sem, ban,
                   online, sync, worker, applyBan, applyUnban, calls, reply,
                   roomsync, notices, show_ban_in_muc, allow_user_cmds,
                   adminsync, listeners, rooms_table, joined, roomcmd,
                   unban_errors>>

\* "Lookup nick in DB": ... WHERE LOWER(nick)=identifier.lower()
unban_lookup_nick(w) ==
    /\ unban[w].pc = "lookup_nick"
    /\ LET row == select_by_nick(store, Lower(unban[w].identifier))
       IN  unban' = [unban EXCEPT ![w].row = row,
                        ![w].pc = IF row = None /\ ~is_jid(unban[w].identifier)
                                  THEN "fallback" ELSE "delete"]
    /\ UNCHANGED <<store, occupants, outcast, protected_rooms, now, sem, ban,
                   online, sync, worker, applyBan, applyUnban, calls, reply,
                   roomsync, notices, show_ban_in_muc, allow_user_cmds,
                   adminsync, listeners, rooms_table, joined, roomcmd,
                   unban_errors>>

\* "Fallback nick-only check against JIDs"
unban_fallback(w) ==
    /\ unban[w].pc = "fallback"
    /\ unban' = [unban EXCEPT
                    ![w].row = select_by_local_part(store,
                                   Lower(unban[w].identifier)),
                    ![w].pc = "delete"]
    /\ UNCHANGED <<store, occupants, outcast, protected_rooms, now, sem, ban,
                   online, sync, worker, applyBan, applyUnban, calls, reply,
                   roomsync, notices, show_ban_in_muc, allow_user_cmds,
                   adminsync, listeners, rooms_table, joined, roomcmd,
                   unban_errors>>

\* "ban_jid = row[0] if row and row[0] else None"
unban_jid(t) == IF t.row # None /\ t.row.jid # None THEN t.row.jid ELSE None

\* "ban_nick = row[1] if row and row[1] else
\*             (None if ban_jid else identifier.lower())"
unban_nick(t) ==
    IF t.row # None /\ t.row.nick # None THEN t.row.nick
    ELSE IF unban_jid(t) # None THEN None ELSE Lower(t.identifier)

\* "Delete from DB" and the commit
unban_delete(w) ==
    /\ unban[w].pc = "delete"
    /\ store' = IF unban_jid(unban[w]) # None
                THEN sql_delete_jid_or_nick(store, unban_jid(unban[w]),
                                            unban_nick(unban[w]))
                ELSE sql_delete_nick(store, unban_nick(unban[w]))
    /\ unban' = [unban EXCEPT ![w].pc = "rooms"]
    /\ UNCHANGED <<occupants, outcast, protected_rooms, now, sem, ban, online,
                   sync, worker, applyBan, applyUnban, calls, reply, roomsync,
                   notices, show_ban_in_muc, allow_user_cmds, adminsync,
                   listeners, rooms_table, joined, roomcmd, unban_errors>>

\* "for room in self.protected_rooms: await apply_unban_to_room(...)"
unban_next_room(w) ==
    /\ unban[w].pc = "rooms"
    /\ IF protected_rooms \subseteq unban[w].visited
       THEN /\ unban' = [unban EXCEPT ![w].pc = "done"]
            /\ UNCHANGED <<applyUnban, notices>>
       ELSE \E room \in protected_rooms \ unban[w].visited :
            /\ applyUnban' = applyUnban \cup
                    apply_unban_to_room(w, room, unban_jid(unban[w]),
                                        unban_nick(unban[w]))
            /\ notices' = notices \cup
                    au_call_notices(w, room, unban_jid(unban[w]),
                                    unban_nick(unban[w]))
            /\ unban' = [unban EXCEPT ![w].pc = "wait", ![w].room = room]
    /\ UNCHANGED <<store, occupants, outcast, protected_rooms, now, sem, ban,
                   online, sync, worker, applyBan, calls, reply, roomsync,
                   show_ban_in_muc, allow_user_cmds, adminsync, listeners,
                   rooms_table, joined, roomcmd, unban_errors>>

\* apply_unban_to_room of the room has returned (or raised, which
\* unban_all logs)
unban_room_done(w) ==
    /\ unban[w].pc = "wait"
    /\ {u \in applyUnban : u.owner = w} = {}
    /\ unban' = [unban EXCEPT ![w].pc = "rooms",
                              ![w].visited = @ \cup {unban[w].room}]
    /\ UNCHANGED <<store, occupants, outcast, protected_rooms, now, sem, ban,
                   online, sync, worker, applyBan, applyUnban, calls, reply,
                   roomsync, notices, show_ban_in_muc, allow_user_cmds,
                   adminsync, listeners, rooms_table, joined, roomcmd,
                   unban_errors>>

(***************************************************************************)
(* unban_worker                                                            *)
(***************************************************************************)
\* the rows of "SELECT jid, nick FROM bans WHERE until > 0 AND until <= ?",
\* each as the identifier the worker passes to unban_all
RECURSIVE expired_identifiers(_, _)
expired_identifiers(rows, t) ==
    IF rows = <<>> THEN <<>>
    ELSE (IF expired(Head(rows).until, t)
          THEN <<IF Head(rows).jid # None THEN bare_jid(Head(rows).jid)
                 ELSE Head(rows).nick>>
          ELSE <<>>) \o expired_identifiers(Tail(rows), t)

\* the worker's SELECT of the expired bans
worker_scan ==
    /\ worker.pc = "scan"
    /\ worker' = [worker EXCEPT !.pc = "loop", !.logged = FALSE,
                     !.rows = expired_identifiers(store, worker.now)]
    /\ UNCHANGED <<store, occupants, outcast, protected_rooms, now, sem, ban,
                   unban, online, sync, applyBan, applyUnban, calls, reply,
                   roomsync, notices, show_ban_in_muc, allow_user_cmds,
                   adminsync, listeners, rooms_table, joined, roomcmd,
                   unban_errors>>

\* "for ban_jid, ban_nick in rows: await self.unban_all(identifier,
\* issuer='system')", the next row, or "await asyncio.sleep(60)"
worker_next ==
    /\ worker.pc = "loop"
    /\ IF worker.rows = <<>>
       THEN /\ worker' = [worker EXCEPT !.pc = "sleep"]
            /\ UNCHANGED <<unban, calls>>
       ELSE /\ worker' = [worker EXCEPT !.pc = "wait", !.rows = Tail(@)]
            /\ unban' = [unban EXCEPT !["worker"] =
                            IF Head(worker.rows) # None
                            THEN unban_all_called(Head(worker.rows), "system")
                            ELSE [UnbanIdle EXCEPT !.pc = "done"]]
            /\ calls' = [calls EXCEPT !["worker"] = {}]
    /\ UNCHANGED <<store, occupants, outcast, protected_rooms, now, sem, ban,
                   online, sync, applyBan, applyUnban, reply, roomsync,
                   notices, show_ban_in_muc, allow_user_cmds, adminsync,
                   listeners, rooms_table, joined, roomcmd, unban_errors>>

\* the worker's unban_all has returned
worker_unbanned ==
    /\ worker.pc = "wait"
    /\ unban["worker"].pc = "done"
    /\ worker' = [worker EXCEPT !.pc = "loop"]
    /\ UNCHANGED <<store, occupants, outcast, protected_rooms, now, sem, ban,
                   unban, online, sync, applyBan, applyUnban, calls, reply,
                   roomsync, notices, show_ban_in_muc, allow_user_cmds,
                   adminsync, listeners, rooms_table, joined, roomcmd,
                   unban_errors>>

\* asyncio.sleep(60) is over: "now = int(time.time())" and the next SELECT
worker_wake ==
    /\ worker.pc = "sleep"
    /\ worker' = [worker EXCEPT !.pc = "scan", !.now = now]
    /\ UNCHANGED <<store, occupants, outcast, protected_rooms, now, sem, ban,
                   unban, online, sync, applyBan, applyUnban, calls, reply,
                   roomsync, notices, show_ban_in_muc, allow_user_cmds,
                   adminsync, listeners, rooms_table, joined, roomcmd,
                   unban_errors>>


\* an exception that ends the coroutine of the worker
worker_exits == "exit"

\* where "except Exception as e: log.warning(...)" leaves the worker: at
\* "await asyncio.sleep(60)"
worker_after_exception == "sleep"

\* the worker's SELECT raises (the store fails): the tick is over
worker_scan_raises ==
    /\ worker.pc = "scan"
    /\ worker' = [worker EXCEPT !.pc = worker_after_exception,
                                !.logged = TRUE, !.rows = <<>>]
    /\ UNCHANGED <<store, occupants, outcast, protected_rooms, now, sem, ban,
                   unban, online, sync, applyBan, applyUnban, calls, reply,
                   roomsync, notices, show_ban_in_muc, allow_user_cmds,
                   adminsync, listeners, rooms_table, joined, roomcmd,
                   unban_errors>>

\* a statement of unban_all on the store (a SELECT, the DELETE or the
\* commit) raises: unban_all is over and passes the exception on
unban_raises(w) ==
    /\ unban[w].pc \in {"lookup_jid", "lookup_nick", "fallback", "delete"}
    /\ unban' = [unban EXCEPT ![w].pc = "raised"]
    /\ UNCHANGED <<store, occupants, outcast, protected_rooms, now, sem, ban,
                   online, sync, worker, applyBan, applyUnban, calls, reply,
                   roomsync, notices, show_ban_in_muc, allow_user_cmds,
                   adminsync, listeners, rooms_table, joined, roomcmd,
                   unban_errors>>

\* the worker's unban_all has raised: the rows left are dropped and the
\* tick is over
worker_caught ==
    /\ worker.pc = "wait"
    /\ unban["worker"].pc = "raised"
    /\ worker' = [worker EXCEPT !.pc = worker_after_exception,
                                !.logged = TRUE, !.rows = <<>>]
    /\ UNCHANGED <<store, occupants, outcast, protected_rooms, now, sem, ban,
                   unban, online, sync, applyBan, applyUnban, calls, reply,
                   roomsync, notices, show_ban_in_muc, allow_user_cmds,
                   adminsync, listeners, rooms_table, joined, roomcmd,
                   unban_errors>>
(***************************************************************************)
(* sync_bans_to_rooms and its sync_room tasks                              *)
(*   sync.db_bans is the list db_bans all sync_room tasks share; its       *)
(*   entries keep jid, nick and until (the comment only words the reason   *)
(*   of the calls)                                                         *)
(***************************************************************************)
SyncIdle ==
    [pc |-> "idle", startup |-> FALSE, now |-> 0, db_bans |-> <<>>,
     rooms |-> <<>>]

Ban3(jid, nick, until) == [jid |-> jid, nick |-> nick, until |-> until]

\* one tag for the rows of every run
issuer_always_sync(startup) == "sync"

\* "issuer_tag = 'sync_startup' if startup else 'sync'"
issuer_tag(startup) == IF startup THEN "sync_startup" ELSE "sync"

\* sync_bans_to_rooms up to its first await ("now = int(time.time())" and
\* the SELECT)
sync_bans_to_rooms(startup) ==
    /\ sync.pc \in {"idle", "done", "raised"}
    /\ sync' = [SyncIdle EXCEPT !.pc = "load", !.startup = startup,
                                !.now = now]
    /\ calls' = [calls EXCEPT !["sync"] = {}]
    /\ UNCHANGED <<store, occupants, outcast, protected_rooms, now, sem, ban,
                   unban, online, worker, applyBan, applyUnban, reply,
                   roomsync, notices, show_ban_in_muc, allow_user_cmds,
                   adminsync, listeners, rooms_table, joined, roomcmd,
                   unban_errors>>

\* "db_bans = await cursor.fetchall()", then one sync_room per protected
\* room is gathered; each sends its first get_users_by_affiliation
sync_load ==
    /\ sync.pc = "load"
    /\ sync' = [sync EXCEPT
          !.db_bans = [i \in 1..Len(store) |->
                          Ban3(store[i].jid, store[i].nick, store[i].until)],
          !.pc = IF protected_rooms = {} THEN "done" ELSE "gather",
          !.rooms = [r \in protected_rooms |->
                        [pc |-> "fetch1", to_insert |-> <<>>]]]
    /\ UNCHANGED <<store, occupants, outcast, protected_rooms, now, sem, ban,
                   unban, online, worker, applyBan, applyUnban, calls, reply,
                   roomsync, notices, show_ban_in_muc, allow_user_cmds,
                   adminsync, listeners, rooms_table, joined, roomcmd,
                   unban_errors>>

\* the sequences that list a set once each (the order of the service's
\* answer)
Listings(S) ==
    {q \in [1..Cardinality(S) -> S] : \A x \in S : \E i \in DOMAIN q : q[i] = x}

\* a reconciliation that finds no orphan
orphans_none(outcasts_bare, db_bans) == <<>>

\* "Ensure DB entries exist for orphan outcasts": the outcasts, in order,
\* that no entry of db_bans has; each is appended to db_bans as it is found
RECURSIVE orphans(_, _)
orphans(outcasts_bare, db_bans) ==
    IF outcasts_bare = <<>> THEN <<>>
    ELSE LET j == Head(outcasts_bare)
             known == \E i \in 1..Len(db_bans) :
                          db_bans[i].jid # None /\ bare_jid(db_bans[i].jid) = j
         IN  IF known THEN orphans(Tail(outcasts_bare), db_bans)
             ELSE <<j>> \o orphans(Tail(outcasts_bare),
                                   Append(db_bans, Ban3(j, None, 0)))

\* sync_room: the first list of outcasts arrives; the orphans go to
\* to_insert and to the shared db_bans
sync_room_outcasts(room) ==
    /\ sync.pc = "gather"
    /\ room \in DOMAIN sync.rooms
    /\ sync.rooms[room].pc = "fetch1"
    /\ \E listing \in Listings(outcast[room]) :
          LET outcasts_bare == [i \in 1..Len(listing) |-> bare_jid(listing[i])]
              new == orphans(outcasts_bare, sync.db_bans)
          IN  sync' = [sync EXCEPT
                  !.db_bans = @ \o [i \in 1..Len(new) |-> Ban3(new[i], None, 0)],
                  !.rooms[room] = [pc |-> IF new = <<>> THEN "fetch2"
                                          ELSE "insert",
                                   to_insert |-> new]]
    /\ UNCHANGED <<store, occupants, outcast, protected_rooms, now, sem, ban,
                   unban, online, worker, applyBan, applyUnban, calls, reply,
                   roomsync, notices, show_ban_in_muc, allow_user_cmds,
                   adminsync, listeners, rooms_table, joined, roomcmd,
                   unban_errors>>

\* a failure of one sync_room that ends every sync_room of the run
sync_aborts_all(rooms, room) ==
    [r \in DOMAIN rooms |-> [rooms[r] EXCEPT !.pc = "failed"]]

\* "except (IqError, IqTimeout) as e: log.warning(...)": the sync_room of the
\* room is over, the others go on
sync_room_failed(rooms, room) == [rooms EXCEPT ![room].pc = "failed"]

\* sync_room: a get_users_by_affiliation is rejected or times out
sync_room_fetch_fails(room) ==
    /\ sync.pc = "gather"
    /\ room \in DOMAIN sync.rooms
    /\ sync.rooms[room].pc \in {"fetch1", "fetch2"}
    /\ sync' = [sync EXCEPT !.rooms = sync_room_failed(@, room)]
    /\ UNCHANGED <<store, occupants, outcast, protected_rooms, now, sem, ban,
                   unban, online, worker, applyBan, applyUnban, calls, reply,
                   roomsync, notices, show_ban_in_muc, allow_user_cmds,
                   adminsync, listeners, rooms_table, joined, roomcmd,
                   unban_errors>>

\* an executemany that writes its rows in place of the table
insert_many_truncating(rows, new) == new

\* executemany("INSERT INTO bans ...", to_insert): the rows are inserted in
\* order up to the first that breaks the PRIMARY KEY
RECURSIVE insert_many(_, _)
insert_many(rows, new) ==
    IF new = <<>> \/ sql_conflict(rows, Head(new)) THEN rows
    ELSE insert_many(Append(rows, Head(new)), Tail(new))

RECURSIVE insert_fails(_, _)
insert_fails(rows, new) ==
    IF new = <<>> THEN FALSE
    ELSE sql_conflict(rows, Head(new))
         \/ insert_fails(Append(rows, Head(new)), Tail(new))

\* sync_room: the orphans are inserted and committed; sqlite3.IntegrityError
\* is not caught by sync_room and ends it
sync_room_insert(room) ==
    /\ sync.pc = "gather"
    /\ room \in DOMAIN sync.rooms
    /\ sync.rooms[room].pc = "insert"
    /\ LET new == [i \in 1..Len(sync.rooms[room].to_insert) |->
                      Row(sync.rooms[room].to_insert[i], None, 0,
                          issuer_tag(sync.startup), "Recovered from room")]
       IN  /\ Len(insert_many(store, new)) <= MaxRows
           /\ store' = insert_many(store, new)
           /\ sync' = [sync EXCEPT !.rooms[room].pc =
                          IF insert_fails(store, new) THEN "raised"
                          ELSE "fetch2"]
    /\ UNCHANGED <<occupants, outcast, protected_rooms, now, sem, ban, unban,
                   online, worker, applyBan, applyUnban, calls, reply,
                   roomsync, notices, show_ban_in_muc, allow_user_cmds,
                   adminsync, listeners, rooms_table, joined, roomcmd,
                   unban_errors>>

\* sync_room: the second list of outcasts arrives; one apply_ban_to_room
\* per entry of db_bans that is not expired and not yet outcast in the room
\* is gathered
sync_room_apply(room) ==
    /\ sync.pc = "gather"
    /\ room \in DOMAIN sync.rooms
    /\ sync.rooms[room].pc = "fetch2"
    /\ LET outcasts_bare == {bare_jid(j) : j \in outcast[room]}
           todo == {k \in 1..Len(sync.db_bans) :
                       /\ ~expired(sync.db_bans[k].until, sync.now)
                       /\ ~(sync.db_bans[k].jid # None
                            /\ bare_jid(sync.db_bans[k].jid) \in outcasts_bare)}
           new == UNION {apply_ban_to_room("sync", room, k,
                             sync.db_bans[k].jid, sync.db_bans[k].nick) :
                             k \in todo}
       IN  /\ applyBan' = applyBan \cup new
           /\ notices' = notices \cup
                  UNION {ab_call_notices("sync", room, k,
                             sync.db_bans[k].jid, sync.db_bans[k].nick) :
                             k \in todo}
           /\ sync' = [sync EXCEPT !.rooms[room].pc =
                          IF new = {} THEN "done" ELSE "gather"]
    /\ UNCHANGED <<store, occupants, outcast, protected_rooms, now, sem, ban,
                   unban, online, worker, applyUnban, calls, reply, roomsync,
                   show_ban_in_muc, allow_user_cmds, adminsync, listeners,
                   rooms_table, joined, roomcmd, unban_errors>>

\* sync_room: its gather is over
sync_room_done(room) ==
    /\ sync.pc = "gather"
    /\ room \in DOMAIN sync.rooms
    /\ sync.rooms[room].pc = "gather"
    /\ awaited("sync", room) = {}
    /\ sync' = [sync EXCEPT !.rooms[room].pc = "done"]
    /\ UNCHANGED <<store, occupants, outcast, protected_rooms, now, sem, ban,
                   unban, online, worker, applyBan, applyUnban, calls, reply,
                   roomsync, notices, show_ban_in_muc, allow_user_cmds,
                   adminsync, listeners, rooms_table, joined, roomcmd,
                   unban_errors>>

\* sync_bans_to_rooms: the gather of the sync_room tasks is over, or has
\* passed on what a sync_room raised
sync_done ==
    /\ sync.pc = "gather"
    /\ \A r \in DOMAIN sync.rooms : sync.rooms[r].pc \in {"done", "raised", "failed"}
    /\ sync' = [sync EXCEPT !.pc =
                   IF \E r \in DOMAIN sync.rooms : sync.rooms[r].pc = "raised"
                   THEN "raised" ELSE "done"]
    /\ UNCHANGED <<store, occupants, outcast, protected_rooms, now, sem, ban,
                   unban, online, worker, applyBan, applyUnban, calls, reply,
                   roomsync, notices, show_ban_in_muc, allow_user_cmds,
                   adminsync, listeners, rooms_table, joined, roomcmd,
                   unban_errors>>


(***************************************************************************)
(* sync_bans_to_rooms_for_single_room, the sync that follows "!room add"   *)
(***************************************************************************)
\* no sync_bans_to_rooms_for_single_room is running
RoomSyncIdle ==
    [pc |-> "idle", room |-> "", now |-> 0, db_bans |-> <<>>,
     to_insert |-> <<>>]

\* sync_bans_to_rooms_for_single_room(room) up to its first await
\* ("now = int(time.time())" and the SELECT)
sync_bans_to_rooms_for_single_room(room) ==
    /\ roomsync.pc \in {"idle", "done", "failed"}
    /\ roomsync' = [RoomSyncIdle EXCEPT !.pc = "load", !.room = room,
                                        !.now = now]
    /\ calls' = [calls EXCEPT !["room_add"] = {}]
    /\ UNCHANGED <<store, occupants, outcast, protected_rooms, now, sem, ban,
                   unban, online, sync, worker, applyBan, applyUnban, reply,
                   notices, show_ban_in_muc, allow_user_cmds, adminsync,
                   listeners, rooms_table, joined, roomcmd, unban_errors>>

\* "db_bans = await cursor.fetchall()", and get_users_by_affiliation is
\* sent
roomsync_load ==
    /\ roomsync.pc = "load"
    /\ roomsync' = [roomsync EXCEPT
          !.db_bans = [i \in 1..Len(store) |->
                          Ban3(store[i].jid, store[i].nick, store[i].until)],
          !.pc = "fetch"]
    /\ UNCHANGED <<store, occupants, outcast, protected_rooms, now, sem, ban,
                   unban, online, sync, worker, applyBan, applyUnban, calls,
                   reply, notices, show_ban_in_muc, allow_user_cmds,
                   adminsync, listeners, rooms_table, joined, roomcmd,
                   unban_errors>>

\* "Apply all bans in this room": the entries of db_bans that are not
\* expired
roomsync_todo(db_bans) ==
    {k \in 1..Len(db_bans) : ~expired(db_bans[k].until, roomsync.now)}

\* one apply_ban_to_room per such entry is gathered
roomsync_tasks(db_bans) ==
    UNION {apply_ban_to_room("room_add", roomsync.room, k, db_bans[k].jid,
                             db_bans[k].nick) : k \in roomsync_todo(db_bans)}

roomsync_notices(db_bans) ==
    UNION {ab_call_notices("room_add", roomsync.room, k, db_bans[k].jid,
                           db_bans[k].nick) : k \in roomsync_todo(db_bans)}

\* the list of outcasts arrives; the orphans go to to_insert and to
\* db_bans; without orphans the bans are applied at once
roomsync_outcasts ==
    /\ roomsync.pc = "fetch"
    /\ \E listing \in Listings(outcast[roomsync.room]) :
          LET outcasts_bare == [i \in 1..Len(listing) |-> bare_jid(listing[i])]
              new == orphans(outcasts_bare, roomsync.db_bans)
              db_bans == roomsync.db_bans \o
                             [i \in 1..Len(new) |-> Ban3(new[i], None, 0)]
          IN  IF new # <<>>
              THEN /\ roomsync' = [roomsync EXCEPT !.db_bans = db_bans,
                                       !.to_insert = new, !.pc = "insert"]
                   /\ UNCHANGED <<applyBan, notices>>
              ELSE /\ roomsync' = [roomsync EXCEPT !.pc =
                          IF roomsync_tasks(db_bans) = {} THEN "done"
                          ELSE "gather"]
                   /\ applyBan' = applyBan \cup roomsync_tasks(db_bans)
                   /\ notices' = notices \cup roomsync_notices(db_bans)
    /\ UNCHANGED <<store, occupants, outcast, protected_rooms, now, sem, ban,
                   unban, online, sync, worker, applyUnban, calls, reply,
                   show_ban_in_muc, allow_user_cmds, adminsync, listeners,
                   rooms_table, joined, roomcmd, unban_errors>>

\* executemany("INSERT INTO bans ...", to_insert) and the commit, then the
\* bans are applied; sqlite3.IntegrityError is caught by the handler of the
\* function, which logs it
roomsync_insert ==
    /\ roomsync.pc = "insert"
    /\ LET new == [i \in 1..Len(roomsync.to_insert) |->
                      Row(roomsync.to_insert[i], None, 0, "sync_room_add",
                          "Recovered from room")]
       IN  /\ Len(insert_many(store, new)) <= MaxRows
           /\ store' = insert_many(store, new)
           /\ IF insert_fails(store, new)
              THEN /\ roomsync' = [roomsync EXCEPT !.pc = "failed"]
                   /\ UNCHANGED <<applyBan, notices>>
              ELSE /\ roomsync' = [roomsync EXCEPT !.pc =
                          IF roomsync_tasks(roomsync.db_bans) = {} THEN "done"
                          ELSE "gather"]
                   /\ applyBan' = applyBan \cup
                                      roomsync_tasks(roomsync.db_bans)
                   /\ notices' = notices \cup
                                     roomsync_notices(roomsync.db_bans)
    /\ UNCHANGED <<occupants, outcast, protected_rooms, now, sem, ban, unban,
                   online, sync, worker, applyUnban, calls, reply,
                   show_ban_in_muc, allow_user_cmds, adminsync, listeners,
                   rooms_table, joined, roomcmd, unban_errors>>

\* the gather of the apply_ban_to_room tasks is over
roomsync_done ==
    /\ roomsync.pc = "gather"
    /\ awaited("room_add", roomsync.room) = {}
    /\ roomsync' = [roomsync EXCEPT !.pc = "done"]
    /\ UNCHANGED <<store, occupants, outcast, protected_rooms, now, sem, ban,
                   unban, online, sync, worker, applyBan, applyUnban, calls,
                   reply, notices, show_ban_in_muc, allow_user_cmds,
                   adminsync, listeners, rooms_table, joined, roomcmd,
                   unban_errors>>
(***************************************************************************)
(* cmd_room ("!room add <room>", "!room remove <room>") and the task       *)
(* wait_for_bot_online that "!room add" creates                            *)
(***************************************************************************)
\* no cmd_room is running, and none has created a task
RoomCmdIdle ==
    [pc |-> "idle", action |-> "", target |-> "", task |-> "none", todo |-> {}]

\* no cmd_room and no task of an earlier "!room add" is running
roomcmd_free == roomcmd.pc \in {"idle", "done"} /\ roomcmd.task \in {"none", "over"}

\* "!room add <target>" up to its first await: a room that is protected
\* already is left alone, another is added to self.protected_rooms
cmd_room_add(target) ==
    /\ roomcmd_free
    /\ protected_rooms' = protected_rooms \cup {target}
    /\ roomcmd' = [RoomCmdIdle EXCEPT
                       !.pc = IF target \in protected_rooms THEN "done"
                              ELSE "insert",
                       !.action = "add", !.target = target]
    /\ UNCHANGED <<store, occupants, outcast, now, sem, ban, unban, online,
                   sync, worker, applyBan, applyUnban, calls, reply, roomsync,
                   notices, show_ban_in_muc, allow_user_cmds, adminsync,
                   listeners, rooms_table, joined, unban_errors>>

\* "INSERT OR REPLACE INTO rooms" and the commit, then the handlers of the
\* room's got_online / got_offline are added, join_muc is sent and the task
\* wait_for_bot_online is created
cmd_room_added ==
    /\ roomcmd.pc = "insert"
    /\ rooms_table' = rooms_table \cup {roomcmd.target}
    /\ listeners' = listeners \cup {roomcmd.target}
    /\ joined' = joined \cup {roomcmd.target}
    /\ roomcmd' = [roomcmd EXCEPT !.pc = "done", !.task = "poll"]
    /\ UNCHANGED <<store, occupants, outcast, protected_rooms, now, sem, ban,
                   unban, online, sync, worker, applyBan, applyUnban, calls,
                   reply, roomsync, notices, show_ban_in_muc, allow_user_cmds,
                   adminsync, unban_errors>>

\* wait_for_bot_online: the polling is over (the bot is in the cache of the
\* room, or 10 seconds have passed), sync_bans_to_rooms_for_single_room of
\* the new room begins
room_add_sync_target ==
    /\ roomcmd.task = "poll"
    /\ roomsync.pc \in {"idle", "done", "failed"}
    /\ roomsync' = [RoomSyncIdle EXCEPT !.pc = "load", !.room = roomcmd.target,
                                        !.now = now]
    /\ calls' = [calls EXCEPT !["room_add"] = {}]
    /\ roomcmd' = [roomcmd EXCEPT !.task = "first"]
    /\ UNCHANGED <<store, occupants, outcast, protected_rooms, now, sem, ban,
                   unban, online, sync, worker, applyBan, applyUnban, reply,
                   notices, show_ban_in_muc, allow_user_cmds, adminsync,
                   listeners, rooms_table, joined, unban_errors>>

\* "other_rooms = self.protected_rooms - {target}"
room_add_others ==
    /\ roomcmd.task = "first"
    /\ roomsync.pc \in {"done", "failed"}
    /\ roomcmd' = [roomcmd EXCEPT !.task = "others",
                                  !.todo = protected_rooms \ {roomcmd.target}]
    /\ UNCHANGED <<store, occupants, outcast, protected_rooms, now, sem, ban,
                   unban, online, sync, worker, applyBan, applyUnban, calls,
                   reply, roomsync, notices, show_ban_in_muc, allow_user_cmds,
                   adminsync, listeners, rooms_table, joined, unban_errors>>

\* "for room in other_rooms: await sync_bans_to_rooms_for_single_room(room)"
room_add_sync_other ==
    /\ roomcmd.task = "others"
    /\ roomsync.pc \in {"done", "failed"}
    /\ IF roomcmd.todo = {}
       THEN /\ roomcmd' = [roomcmd EXCEPT !.task = "over"]
            /\ UNCHANGED <<roomsync, calls>>
       ELSE \E room \in roomcmd.todo :
            /\ roomsync' = [RoomSyncIdle EXCEPT !.pc = "load", !.room = room,
                                                !.now = now]
            /\ calls' = [calls EXCEPT !["room_add"] = {}]
            /\ roomcmd' = [roomcmd EXCEPT !.todo = @ \ {room}]
    /\ UNCHANGED <<store, occupants, outcast, protected_rooms, now, sem, ban,
                   unban, online, sync, worker, applyBan, applyUnban, reply,
                   notices, show_ban_in_muc, allow_user_cmds, adminsync,
                   listeners, rooms_table, joined, unban_errors>>

\* "!room remove <target>" up to its first await:
\* self.protected_rooms.discard(target)
cmd_room_remove(target) ==
    /\ roomcmd_free
    /\ protected_rooms' = protected_rooms \ {target}
    /\ roomcmd' = [RoomCmdIdle EXCEPT !.pc = "delete", !.action = "remove",
                                     !.target = target]
    /\ UNCHANGED <<store, occupants, outcast, now, sem, ban, unban, online,
                   sync, worker, applyBan, applyUnban, calls, reply, roomsync,
                   notices, show_ban_in_muc, allow_user_cmds, adminsync,
                   listeners, rooms_table, joined, unban_errors>>

\* "DELETE FROM rooms WHERE room=?" and the commit, then leave_muc; the
\* handlers of the room's events stay
cmd_room_removed ==
    /\ roomcmd.pc = "delete"
    /\ rooms_table' = rooms_table \ {roomcmd.target}
    /\ joined' = joined \ {roomcmd.target}
    /\ roomcmd' = [roomcmd EXCEPT !.pc = "done"]
    /\ UNCHANGED <<store, occupants, outcast, protected_rooms, now, sem, ban,
                   unban, online, sync, worker, applyBan, applyUnban, calls,
                   reply, roomsync, notices, show_ban_in_muc, allow_user_cmds,
                   adminsync, listeners, unban_errors>>

(***************************************************************************)
(* cmd_why and the clock                                                   *)
(***************************************************************************)
\* human_time: "permanent" for seconds <= 0, else the parts d, h, m, s
human_time(seconds) ==
    IF seconds <= 0 THEN "permanent"
    ELSE LET m0 == seconds \div 60
             h0 == m0 \div 60
         IN  <<h0 \div 24, h0 % 24, m0 % 60, seconds % 60>>

\* "remaining = human_time(max(0, until - now)) if until > 0 else
\* 'permanent'"
remaining(until, t) ==
    IF until > 0 THEN human_time(IF until - t > 0 THEN until - t ELSE 0)
    ELSE "permanent"

\* the row cmd_why finds: by JID, then by nickname, then by the local part
\* of a stored JID
why_row(rows, identifier) ==
    LET ban_jid == IF is_jid(identifier) THEN identifier ELSE None
        ban_nick == IF is_jid(identifier) THEN None ELSE Lower(identifier)
        r1 == IF ban_jid # None THEN select_by_jid(rows, ban_jid) ELSE None
        r2 == IF r1 # None THEN r1 ELSE select_by_nick(rows, ban_nick)
    IN  IF r2 = None /\ ban_nick # None
        THEN select_by_local_part(rows, ban_nick)
        ELSE r2

\* cmd_why(identifier, room): the answer
cmd_why(identifier) ==
    /\ reply' = LET row == why_row(store, identifier)
                IN  IF row = None
                    THEN [cmd |-> "why", identifier |-> identifier,
                          found |-> FALSE]
                    ELSE [cmd |-> "why", identifier |-> identifier,
                          found |-> TRUE, issuer |-> row.issuer,
                          comment |-> row.comment,
                          remaining |-> remaining(row.until, now)]
    /\ UNCHANGED <<store, occupants, outcast, protected_rooms, now, sem, ban,
                   unban, online, sync, worker, applyBan, applyUnban, calls,
                   roomsync, notices, show_ban_in_muc, allow_user_cmds,
                   adminsync, listeners, rooms_table, joined, roomcmd,
                   unban_errors>>

(***************************************************************************)
(* sync_admins                                                             *)
(***************************************************************************)
\* sync_admins up to its first await: the owners of ADMIN_ROOM are asked for
sync_admins ==
    /\ adminsync.pc \in {"idle", "done", "failed"}
    /\ adminsync' = [pc |-> "owners", owners |-> <<>>]
    /\ UNCHANGED <<store, occupants, outcast, protected_rooms, now, sem, ban,
                   unban, online, sync, worker, applyBan, applyUnban, calls,
                   reply, roomsync, notices, show_ban_in_muc, allow_user_cmds,
                   listeners, rooms_table, joined, roomcmd, unban_errors>>

\* the list of owners arrives; the admins are asked for
sync_admins_owners(owners) ==
    /\ adminsync.pc = "owners"
    /\ adminsync' = [pc |-> "admins", owners |-> owners]
    /\ UNCHANGED <<store, occupants, outcast, protected_rooms, now, sem, ban,
                   unban, online, sync, worker, applyBan, applyUnban, calls,
                   reply, roomsync, notices, show_ban_in_muc, allow_user_cmds,
                   listeners, rooms_table, joined, roomcmd, unban_errors>>

\* "for jid in owners + admins": the entry of each in the dict of ADMIN_ROOM
\* is written under the nickname of the first occupant with that bare JID,
\* or under the bare JID when there is none
RECURSIVE sync_admins_entries(_, _, _)
sync_admins_entries(d, jids, owners) ==
    IF jids = <<>> THEN d
    ELSE LET jid == Head(jids)
             bare == bare_jid(jid)
             hit(i) == d[i].jid # None /\ bare_jid(d[i].jid) = bare
             nick == IF \E i \in 1..Len(d) : hit(i)
                     THEN d[CHOOSE i \in 1..Len(d) :
                                hit(i) /\ \A j \in 1..(i - 1) : ~hit(j)].nick
                     ELSE None
             info == [nick |-> IF nick # None THEN nick ELSE bare,
                      jid |-> bare,
                      affiliation |-> IF \E i \in 1..Len(owners) : owners[i] = jid
                                      THEN "owner" ELSE "admin",
                      role |-> IF nick # None THEN "moderator"
                               ELSE "participant"]
         IN  sync_admins_entries(dict_set(d, info), Tail(jids), owners)

\* the admins written into the cache of a protected room
sync_admins_protected_room == "r1"

\* "room = ADMIN_ROOM"
sync_admins_room == ADMIN_ROOM

\* the list of admins arrives; self.occupants[ADMIN_ROOM] is updated
sync_admins_admins(admins) ==
    /\ adminsync.pc = "admins"
    /\ occupants' =
          [r \in DOMAIN occupants \cup {sync_admins_room} |->
              IF r = sync_admins_room
              THEN sync_admins_entries(occupants_get(sync_admins_room),
                                       adminsync.owners \o admins,
                                       adminsync.owners)
              ELSE occupants[r]]
    /\ adminsync' = [adminsync EXCEPT !.pc = "done"]
    /\ UNCHANGED <<store, outcast, protected_rooms, now, sem, ban, unban,
                   online, sync, worker, applyBan, applyUnban, calls, reply,
                   roomsync, notices, show_ban_in_muc, allow_user_cmds,
                   listeners, rooms_table, joined, roomcmd, unban_errors>>

\* "except Exception as e: log.warning('Failed to sync admins: ...')"
sync_admins_fails ==
    /\ adminsync.pc \in {"owners", "admins"}
    /\ adminsync' = [adminsync EXCEPT !.pc = "failed"]
    /\ UNCHANGED <<store, occupants, outcast, protected_rooms, now, sem, ban,
                   unban, online, sync, worker, applyBan, applyUnban, calls,
                   reply, roomsync, notices, show_ban_in_muc, allow_user_cmds,
                   listeners, rooms_table, joined, roomcmd, unban_errors>>

\* time passes
tick ==
    /\ now < MaxNow
    /\ now' = now + 1
    /\ UNCHANGED <<store, occupants, outcast, protected_rooms, sem, ban,
                   unban, online, sync, worker, applyBan, applyUnban, calls,
                   reply, roomsync, notices, show_ban_in_muc, allow_user_cmds,
                   adminsync, listeners, rooms_table, joined, roomcmd,
                   unban_errors>>

(***************************************************************************)
(* The state after __init__, setup_db and start                            *)
(***************************************************************************)
\* no sync_admins is running
AdminSyncIdle == [pc |-> "idle", owners |-> <<>>]

\* unban_worker as start has created it: at its first SELECT; `logged` tells
\* that the tick under way or just over has logged "Error in unban_worker"
WorkerStart == [pc |-> "scan", now |-> 0, rows |-> <<>>, logged |-> FALSE]

NoReply == [cmd |-> "none"]

\* the bot runs on a ban table `rows`; the rooms hold the outcast lists
\* `out`; the presences seen so far have left the cache `occ`; config.py
\* sets SHOW_BAN_IN_MUC to `show` and ALLOW_USER_COMMANDS_IN_PROTECTED_ROOMS
\* to `allow`; no request is running
InitConfig(rows, occ, out, show, allow) ==
    /\ store = rows
    /\ occupants = occ
    /\ outcast = out
    /\ protected_rooms = ProtectedRooms
    /\ now = 0
    /\ sem = Permits
    /\ ban = BanIdle
    /\ unban = [w \in {"cmd", "worker"} |-> UnbanIdle]
    /\ online = OnlineIdle
    /\ sync = SyncIdle
    /\ worker = WorkerStart
    /\ applyBan = {}
    /\ applyUnban = {}
    /\ calls = [o \in Owners |-> {}]
    /\ reply = NoReply
    /\ roomsync = RoomSyncIdle
    /\ notices = {}
    /\ show_ban_in_muc = show
    /\ allow_user_cmds = allow
    /\ adminsync = AdminSyncIdle
    /\ listeners = Rooms
    /\ rooms_table = ProtectedRooms
    /\ joined = Rooms
    /\ roomcmd = RoomCmdIdle
    /\ unban_errors = {}

\* the same with a config.py that keeps ban messages out of the protected
\* rooms
InitFull(rows, occ, out) == InitConfig(rows, occ, out, FALSE, FALSE)

\* the bot has started and no presence has been seen yet
InitWith(rows, out) == InitFull(rows, <<>>, out)

\* transport without failure
Ok == {"ok"}

\* the outcast lists the rooms may hold
OutcastLists == [ProtectedRooms -> SUBSET {JA, JB}]

(***************************************************************************)
(* Reconciliation alone, every call answered: a run of sync_bans_to_rooms  *)
(* over rooms whose outcast lists and a ban table that differ              *)
(***************************************************************************)
\* ban tables as ban_all leaves them: no row, a permanent ban of JB, a
\* temporary ban of JB that has expired by time 1
ReconcileStores ==
    {<<>>,
     <<Row(JB, None, 0, "op", "spam")>>,
     <<Row(JB, None, 1, "op", "spam")>>}

InitReconcile ==
    \E rows \in ReconcileStores, out \in OutcastLists : InitWith(rows, out)

NextReconcile ==
    \/ \E startup \in BOOLEAN : sync_bans_to_rooms(startup)
    \/ sync_load
    \/ \E room \in ProtectedRooms : sync_room_outcasts(room)
    \/ \E room \in ProtectedRooms : sync_room_insert(room)
    \/ \E room \in ProtectedRooms : sync_room_apply(room)
    \/ \E room \in ProtectedRooms : sync_room_done(room)
    \/ sync_done
    \/ set_outcast_send
    \/ set_outcast_returns(Ok)
    \/ tick

SpecReconcile == InitReconcile /\ [][NextReconcile]_vars

\* the bare identities on the outcast list of a room
outcasts_bare_of(room) == {bare_jid(j) : j \in outcast[room]}

\* every active record with an identity is outcast in every protected room,
\* and every outcast identity has a record
Converged ==
    /\ \A i \in 1..Len(store) :
          (store[i].jid # None /\ ~expired(store[i].until, now))
              => \A r \in protected_rooms : store[i].jid \in outcasts_bare_of(r)
    /\ \A r \in protected_rooms : \A j \in outcasts_bare_of(r) :
          \E i \in 1..Len(store) : store[i].jid = j

\* C2: when a reconciliation run has completed (every call answered, no
\* command running), the store and the rooms' outcast lists have converged,
\* whatever the interleaving of the rooms' sync_room tasks
C2_Convergence == sync.pc = "done" => Converged


\* the rows a step has added to the table
adopted_rows == {store'[i] : i \in (Len(store) + 1)..Len(store')}

\* a step adds rows only for identities that sit on a room's outcast list
\* and have no row, one row each, with the bare identity, no nickname, no
\* expiry, the given issuer and the recovered-from-room comment
adopts_as(issuer) ==
    /\ \A i \in 1..Len(store) : store'[i] = store[i]
    /\ \A row \in adopted_rows :
          /\ row = Row(bare_jid(row.jid), None, 0, issuer, "Recovered from room")
          /\ \E r \in protected_rooms : row.jid \in outcasts_bare_of(r)
          /\ \A i \in 1..Len(store) : store[i].jid # row.jid
    /\ \A i, j \in 1..Len(store') : store'[i].jid = store'[j].jid => i = j

\* when a run is over, every identity on a room's outcast list has a row
all_adopted ==
    sync.pc = "done" =>
        \A r \in protected_rooms : \A j \in outcasts_bare_of(r) :
            \E i \in 1..Len(store) : store[i].jid = j

\* C22 as claimed: every outcast identity without a record gets exactly one
\* record (bare identity, no nickname, permanent, recovered-from-room
\* comment) whose issuer is "sync", at startup and on demand; an identity
\* with a record gets none
C22_OrphanAdoption ==
    /\ [][store' # store => adopts_as("sync")]_vars
    /\ []all_adopted

\* C22 amended: the same, the issuer being "sync" in a run on demand and
\* "sync_startup" in the run at startup
C22_OrphanAdoptionTagged ==
    /\ [][store' # store => adopts_as(IF sync.startup THEN "sync_startup"
                                          ELSE "sync")]_vars
    /\ []all_adopted

\* C22, its case: the startup run is over; the orphan JA has its row, and
\* JB, which had a row and sits on an outcast list, has no second one
C22_Witness ==
    /\ sync.pc = "done"
    /\ sync.startup
    /\ Len(store) = 2
    /\ store[1] = Row(JB, None, 0, "op", "spam")
    /\ store[2] = Row(JA, None, 0, "sync_startup", "Recovered from room")
    /\ \E r \in protected_rooms : JB \in outcast[r]
(***************************************************************************)
(* Enforcement next to presences: muc_online and reconciliation enforce a  *)
(* stored ban while the banned account joins and leaves, as admin of one   *)
(* room and without affiliation in the other; every call is answered       *)
(***************************************************************************)
\* the presences of the model: one account, admin of r1 and without
\* affiliation in r2
GuardJoins == {<<"r1", NickA, JAres, "admin">>, <<"r2", NickA, JAres, "none">>}

\* the account was banned while in no room, by JID or by JID and nickname
InitGuard ==
    \E nick \in {None, NickA} :
        InitWith(<<Row(JA, nick, 0, "op", "spam")>>,
                 [r \in ProtectedRooms |-> {}])

NextGuard ==
    \/ \E p \in GuardJoins : muc_online(p[1], p[2], p[3], p[4])
    \/ muc_online_fetch
    \/ muc_online_done
    \/ \E p \in GuardJoins : muc_offline(p[1], p[2])
    \/ sync_bans_to_rooms(FALSE)
    \/ sync_load
    \/ \E room \in ProtectedRooms : sync_room_outcasts(room)
    \/ \E room \in ProtectedRooms : sync_room_apply(room)
    \/ \E room \in ProtectedRooms : sync_room_done(room)
    \/ sync_done
    \/ set_outcast_send
    \/ set_outcast_returns(Ok)
    \/ kick_nick_send
    \/ kick_nick_returns(Ok)
    \/ best_effort_kick_send
    \/ best_effort_kick_returns(Ok)

SpecGuard == InitGuard /\ [][NextGuard]_vars

\* an occupant the cache knows in the room matches the ban (bare identity,
\* or nickname whatever the case) and is owner or admin
admin_known(room, jid, nick) ==
    \E i \in 1..Len(occupants_get(room)) :
        LET o == occupants_get(room)[i]
        IN  /\ o.affiliation \in AdminAffiliations
            /\ \/ (jid # None /\ o.jid # None /\ bare_jid(o.jid) = jid)
               \/ (nick # None /\ Lower(o.nick) = Lower(nick))

\* the sendings a step adds to the history of a request
new_sendings(owner) == {e \in calls'[owner] \ calls[owner] : Len(e) = 6}

\* ban_all has written its row
ban_written == ban.pc \in {"rooms", "wait", "done"}

\* unban_all has deleted
unban_deleted(w) == unban[w].pc \in {"rooms", "wait", "done"}

\* C1: no step of apply_ban_to_room sends set_affiliation(outcast) or
\* set_role(none) (a permit is taken) for a ban that an owner or admin known
\* in that room matches
C1_GuardInvariant ==
    [][sem' < sem =>
          \A a \in applyBan' \ applyBan : ~admin_known(a.room, a.jid, a.nick)]_vars

(***************************************************************************)
(* The semaphore under load: a reconciliation run with more calls to make  *)
(* than there are permits, next to a command "!unban"                      *)
(***************************************************************************)
\* three bans (two by JID, one by nickname) are to be enforced in two
\* rooms
InitPermits ==
    InitWith(<<Row(JA, None, 0, "op", "spam"), Row(JB, None, 0, "op", "spam"),
               Row(None, NickG, 0, "op", "spam")>>,
             [r \in ProtectedRooms |-> {}])

NextPermits ==
    \/ sync_bans_to_rooms(FALSE)
    \/ sync_load
    \/ \E room \in ProtectedRooms : sync_room_outcasts(room)
    \/ \E room \in ProtectedRooms : sync_room_apply(room)
    \/ \E room \in ProtectedRooms : sync_room_done(room)
    \/ sync_done
    \/ set_outcast_send
    \/ set_outcast_returns(Ok)
    \/ best_effort_kick_send
    \/ best_effort_kick_returns(Ok)
    \/ unban_all(JA, "op")
    \/ unban_lookup_jid("cmd")
    \/ unban_lookup_nick("cmd")
    \/ unban_delete("cmd")
    \/ unban_next_room("cmd")
    \/ unban_room_done("cmd")
    \/ clear_outcast_send
    \/ clear_outcast_returns(IqResults)
    \/ clear_outcast_retry

SpecPermits == InitPermits /\ [][NextPermits]_vars

\* the calls sent and not yet answered
InFlight ==
    Cardinality({a \in applyBan : a.pc \in {"fly1", "fly3"}})
    + Cardinality({<<a, kk>> \in applyBan \X UNION {a.kicks : a \in applyBan} :
                       kk \in a.kicks /\ kk.pc = "fly"})
    + Cardinality({u \in applyUnban : u.pc \in {"fly1", "fly2"}})

\* C3: at every moment at most Permits calls set_affiliation / set_role are
\* in flight, over all rooms and all running tasks
C3_ConcurrencyBound == InFlight <= Permits

\* C3, its case: every permit is taken while a further task waits for one
C3_Witness ==
    /\ InFlight = Permits
    /\ \/ \E a \in applyBan : a.pc \in {"step1", "step3"}
       \/ \E u \in applyUnban : u.pc \in {"step1", "step2"}

(***************************************************************************)
(* "!ban" twice for one JID: a first ban_all by "op", and when it has      *)
(* returned a second one for the same target by "op2", with another        *)
(* expiry and comment; the occupant cache does not change; calls may fail  *)
(***************************************************************************)
\* the caches the two commands may run on: no presence seen, or the target
\* account in room r1 under the nickname "g"
IdemCaches == {<<>>, [r \in {"r1"} |-> <<Occupant(NickG, JAres, "none")>>]}

\* ways to write the same account as a command target
IdemTargets == {JA, JAup, JAres}

InitIdempotent ==
    \E occ \in IdemCaches : InitFull(<<>>, occ, [r \in ProtectedRooms |-> {}])

NextIdempotent ==
    \/ /\ ban.pc = "idle"
       /\ \E identifier \in IdemTargets : ban_all(identifier, NoUntil, "op", "spam")
    \/ /\ ban.pc = "done"
       /\ ban.issuer = "op"
       /\ ban_all(ban.identifier, 1, "op2", "flood")
    \/ ban_all_save
    \/ ban_all_next_room
    \/ ban_all_room_done
    \/ set_outcast_send
    \/ set_outcast_returns(IqResults)
    \/ set_outcast_retry
    \/ kick_nick_send
    \/ kick_nick_returns(IqResults)
    \/ kick_nick_retry
    \/ best_effort_kick_send
    \/ best_effort_kick_returns(IqResults)

SpecIdempotent == InitIdempotent /\ [][NextIdempotent]_vars

\* the rows of the table that carry the JID
rows_of(jid) == {i \in 1..Len(store) : store[i].jid = jid}

\* the second command has written its row
second_saved == ban.issuer = "op2" /\ ban.pc \in {"rooms", "wait", "done"}

\* once the second command has written, the table holds one row for the
\* JID, with the expiry, issuer and comment of the second command
one_record_last_write ==
    second_saved =>
        /\ Cardinality(rows_of(JA)) = 1
        /\ \A i \in rows_of(JA) :
              /\ store[i].until = 1
              /\ store[i].issuer = "op2"
              /\ store[i].comment = "flood"

\* C4 as stated: ... and the second application changes no room's outcast
\* list
C4_IdempotentAsStated ==
    /\ []one_record_last_write
    /\ [][second_saved => outcast' = outcast]_vars

\* C4: two ban_all for one JID leave one row for it, with the expiry,
\* issuer and comment of the second; the second application removes nothing
\* from a room's outcast list and adds nothing but the banned JID (which it
\* adds where the first application's set_affiliation had failed)
C4_Idempotent ==
    /\ []one_record_last_write
    /\ [][second_saved =>
             \A r \in ProtectedRooms :
                 outcast'[r] \in {outcast[r], outcast[r] \cup {JA}}]_vars

\* C4, its case: the second command has returned and the JID is outcast in
\* every room
C4_Witness ==
    /\ ban.issuer = "op2"
    /\ ban.pc = "done"
    /\ \A r \in ProtectedRooms : JA \in outcast[r]

(***************************************************************************)
(* Bans by nickname: "!ban g" (in either case) while an admin called "g"   *)
(* and a plain occupant called "G" join and leave room r1; every call is   *)
(* answered                                                                *)
(***************************************************************************)
NickJoins == {<<NickG, JA, "admin">>, <<NickGu, JB, "none">>}

InitNickname == InitWith(<<>>, [r \in ProtectedRooms |-> {}])

NextNickname ==
    \/ /\ Len(store) < MaxBans
       /\ \E identifier \in {NickG, NickGu} :
             ban_all(identifier, NoUntil, "bob", "")
    \/ ban_all_save
    \/ ban_all_next_room
    \/ ban_all_room_done
    \/ \E p \in NickJoins : muc_online("r1", p[1], p[2], p[3])
    \/ \E p \in NickJoins : muc_offline("r1", p[1])
    \/ muc_online_fetch
    \/ muc_online_done
    \/ set_outcast_send
    \/ set_outcast_returns(Ok)
    \/ kick_nick_send
    \/ kick_nick_returns(Ok)
    \/ best_effort_kick_send
    \/ best_effort_kick_returns(Ok)

SpecNickname == InitNickname /\ [][NextNickname]_vars

\* C5: no two rows without a JID carry the same nickname (a second "!ban"
\* of a nickname replaces the row of the first)
C5_NicknameKey ==
    \A i, j \in 1..Len(store) :
        (i # j /\ store[i].jid = None /\ store[j].jid = None)
            => Lower(store[i].nick) # Lower(store[j].nick)

\* an active row without a JID bans the nickname, whatever the case
nick_banned(nick, t) ==
    \E i \in 1..Len(store) :
        /\ store[i].jid = None
        /\ store[i].nick # None
        /\ Lower(store[i].nick) = Lower(nick)
        /\ ~expired(store[i].until, t)

\* the cache occ holds the nickname in the room, not as owner or admin
plain_in(occ, room, nick) ==
    /\ room \in DOMAIN occ
    /\ \E i \in 1..Len(occ[room]) :
          /\ occ[room][i].nick = nick
          /\ occ[room][i].affiliation \notin AdminAffiliations

\* C8: "!ban <nick>" with no such occupant stores a row without a JID, and
\* from then on a join of an occupant of that nickname (in any case) who is
\* not owner or admin is not passed over by muc_online, and its handler
\* schedules the set_role(room, nick, "none") of that occupant
C8_NicknameBan ==
    [][(nick_banned(online'.nick, now)
         /\ plain_in(occupants', online'.room, online'.nick))
        => /\ ~(online' # online /\ online'.pc = "skipped")
           /\ (online.pc = "fetch" /\ online'.pc # "fetch")
                 => \E a \in applyBan' :
                        /\ a.owner = "join"
                        /\ a.room = online.room
                        /\ \E kk \in a.kicks : kk.nick = online.nick]_vars


\* a record that is permanent or expires later than t matches the occupant
\* by bare identity or by nickname, whatever the case
active_match(rows, nick, jid, t) ==
    \E i \in 1..Len(rows) :
        /\ ~expired(rows[i].until, t)
        /\ \/ (rows[i].jid # None /\ jid # None
                 /\ bare_jid(jid) = bare_jid(rows[i].jid))
           \/ (rows[i].nick # None /\ Lower(nick) = Lower(rows[i].nick))

\* C23: muc_online passes over a join exactly when the joining occupant is
\* owner or admin; for any other join it starts apply_ban_to_room exactly
\* when a record that is active at the time of the join matches the
\* occupant, and only for the room of the join; every call of the handler
\* goes to that room
C23_JoinHandling ==
    /\ [][(online' # online /\ online'.pc \in {"fetch", "skipped"})
            => (online'.pc = "skipped"
                  <=> ~plain_in(occupants', online'.room, online'.nick))]_vars
    /\ [][(online.pc = "fetch" /\ online'.pc # "fetch")
            => /\ applyBan' # applyBan
                    <=> active_match(store, online.nick, online.jid, online.now)
               /\ \A a \in applyBan' \ applyBan :
                      a.owner = "join" /\ a.room = online.room]_vars
    /\ [](\A c \in calls["join"] : c[2] = online.room)
(***************************************************************************)
(* The expiry worker: a temporary ban of a JID, enforced in both rooms, or *)
(* a temporary ban of a nickname, runs out while unban_worker loops; calls *)
(* may fail.  The event loop runs every coroutine that can run, every call *)
(* returns or times out, and time passes.                                  *)
(***************************************************************************)
InitExpiry ==
    \/ \E until \in 1..MaxNow :
          InitWith(<<Row(JA, None, until, "op", "spam")>>,
                   [r \in ProtectedRooms |-> {JA}])
    \/ InitWith(<<Row(None, NickG, 1, "op", "spam")>>,
                [r \in ProtectedRooms |-> {}])

NextExpiry ==
    \/ tick
    \/ worker_scan
    \/ worker_next
    \/ worker_unbanned
    \/ worker_wake
    \/ unban_lookup_jid("worker")
    \/ unban_lookup_nick("worker")
    \/ unban_delete("worker")
    \/ unban_next_room("worker")
    \/ unban_room_done("worker")
    \/ clear_outcast_send
    \/ clear_outcast_returns(IqResults)
    \/ clear_outcast_retry

FairExpiry ==
    /\ WF_vars(tick)
    /\ WF_vars(worker_scan)
    /\ WF_vars(worker_next)
    /\ WF_vars(worker_unbanned)
    /\ WF_vars(worker_wake)
    /\ WF_vars(unban_lookup_jid("worker"))
    /\ WF_vars(unban_lookup_nick("worker"))
    /\ WF_vars(unban_delete("worker"))
    /\ WF_vars(unban_next_room("worker"))
    /\ WF_vars(unban_room_done("worker"))
    /\ WF_vars(clear_outcast_send)
    /\ WF_vars(clear_outcast_returns(IqResults))
    /\ WF_vars(clear_outcast_retry)

SpecExpiry == InitExpiry /\ [][NextExpiry]_vars /\ FairExpiry

\* the table holds a temporary ban of the JID whose time is over
expired_in_store ==
    \E i \in rows_of(JA) : store[i].until > 0 /\ store[i].until <= now

\* the worker's unban_all of the JID has returned
worker_unban_returned ==
    unban["worker"].pc = "done" /\ unban["worker"].identifier = JA

\* the call that clears the outcast affiliation of the JID in a room
clear_call(room) == Call("aff", room, JA, "none")

\* C6 as stated: a temporary ban whose time is over is in the end deleted
\* by the worker, with the JID outcast in no protected room
C6_ExpiryAsStated ==
    expired_in_store ~>
        (rows_of(JA) = {} /\ \A r \in ProtectedRooms : JA \notin outcast[r])

\* C6: a temporary ban whose time is over is in the end deleted by the
\* worker; its unban_all sends set_affiliation(none) for the JID to every
\* protected room, and when it has returned the JID is still outcast only
\* in rooms where that call was rejected or timed out
C6_Expiry ==
    /\ expired_in_store ~> (rows_of(JA) = {})
    /\ [](worker_unban_returned =>
            \A r \in ProtectedRooms :
                /\ clear_call(r) \in calls["worker"]
                /\ JA \in outcast[r] =>
                      /\ Answer(clear_call(r), "ok") \notin calls["worker"]
                      /\ \/ Answer(clear_call(r), "rejected") \in calls["worker"]
                         \/ Answer(clear_call(r), "timeout") \in calls["worker"])

\* C6, its case: the worker's unban_all has returned after the ban's time,
\* the row is gone and the JID is outcast in no room
C6_Witness ==
    /\ worker_unban_returned
    /\ rows_of(JA) = {}
    /\ \A r \in ProtectedRooms : JA \notin outcast[r]

(***************************************************************************)
(* "!ban <jid>", "!why <jid>", "!unban <jid>", "!why <jid>": one permanent *)
(* ban by "alice", an unban once the ban has returned, and "!why" at any   *)
(* time; every call is answered                                            *)
(***************************************************************************)
InitRoundTrip == InitWith(<<>>, [r \in ProtectedRooms |-> {}])

NextRoundTrip ==
    \/ /\ ban.pc = "idle"
       /\ \E identifier \in IdemTargets :
             ban_all(identifier, NoUntil, "alice", "spam")
    \/ ban_all_save
    \/ ban_all_next_room
    \/ ban_all_room_done
    \/ set_outcast_send
    \/ set_outcast_returns(Ok)
    \/ \E identifier \in IdemTargets : cmd_why(identifier)
    \/ /\ ban.pc = "done"
       /\ unban["cmd"].pc = "idle"
       /\ \E identifier \in IdemTargets : unban_all(identifier, "alice")
    \/ unban_lookup_jid("cmd")
    \/ unban_lookup_nick("cmd")
    \/ unban_delete("cmd")
    \/ unban_next_room("cmd")
    \/ unban_room_done("cmd")
    \/ clear_outcast_send
    \/ clear_outcast_returns(Ok)

SpecRoundTrip == InitRoundTrip /\ [][NextRoundTrip]_vars

\* C7: once "!ban <jid>" (permanent, by alice, comment spam) has returned,
\* "!why" for the same target answers with issuer alice, comment spam and
\* remaining = permanent; once a following "!unban" for the same target
\* has returned, "!why" for it answers that no ban is found
C7_RoundTrip ==
    [][(/\ reply' # reply
        /\ reply'.cmd = "why"
        /\ ban.pc = "done"
        /\ reply'.identifier = ban.identifier)
       => /\ unban["cmd"].pc = "idle"
                => /\ reply'.found
                   /\ reply'.issuer = "alice"
                   /\ reply'.comment = "spam"
                   /\ reply'.remaining = "permanent"
          /\ (unban["cmd"].pc = "done"
                /\ unban["cmd"].identifier = ban.identifier)
                => ~reply'.found]_vars


\* C15: "!why" and "!unban" compare identities in bare form: when "!ban"
\* for a JID has returned, "!why" for any target with the same bare JID
\* (another case, a resource) finds the row, and "!unban" for any such
\* target deletes it
C15_BareForm ==
    /\ [][(/\ reply' # reply
            /\ reply'.cmd = "why"
            /\ ban.pc = "done"
            /\ unban["cmd"].pc = "idle"
            /\ bare_jid(reply'.identifier) = ban.jid)
           => reply'.found]_vars
    /\ []((unban["cmd"].pc \in {"rooms", "wait", "done"}
            /\ bare_jid(unban["cmd"].identifier) = JA)
           => rows_of(JA) = {})

\* C25: no set_affiliation / set_role of a "!ban" is sent before its REPLACE
\* is committed, and none of an "!unban" before its DELETE is: when a call
\* of the ban is sent the table holds the row the ban wrote, and when a call
\* of the unban is sent the table holds no row for the JID it lifts
C25_StoreBeforeEnforcement ==
    /\ [](calls["ban"] # {} => ban_written)
    /\ [](calls["cmd"] # {} => unban_deleted("cmd"))
    /\ [][new_sendings("ban") # {}
            => \E i \in 1..Len(store) :
                   store[i] = Row(bare_jid(ban.identifier), ban.nick, 0,
                                  "alice", "spam")]_vars
    /\ [][new_sendings("cmd") # {}
            => \A i \in 1..Len(store) :
                   store[i].jid # unban_jid(unban["cmd"])]_vars

\* C25, its case: "!ban" and "!unban" have both sent calls and returned
C25_Witness ==
    /\ ban.pc = "done"
    /\ unban["cmd"].pc = "done"
    /\ Call("aff", "r1", JA, "outcast") \in calls["ban"]
    /\ Call("aff", "r1", JA, "none") \in calls["cmd"]
    /\ store = <<>>
(***************************************************************************)
(* "!unban" of a JID or a nickname on tables that do or do not hold the    *)
(* JID, in rooms that do or do not list it as outcast; calls may fail      *)
(***************************************************************************)
InitOverride ==
    \E rows \in {<<>>, <<Row(JA, None, 0, "op", "spam")>>},
       out \in [ProtectedRooms -> {{}, {JA}}] :
        InitWith(rows, out)

NextOverride ==
    \/ \E identifier \in {JA, JAup, NickA} : unban_all(identifier, "op")
    \/ unban_lookup_jid("cmd")
    \/ unban_lookup_nick("cmd")
    \/ unban_fallback("cmd")
    \/ unban_delete("cmd")
    \/ unban_next_room("cmd")
    \/ unban_room_done("cmd")
    \/ clear_outcast_send
    \/ clear_outcast_returns(IqResults)
    \/ clear_outcast_retry

SpecOverride == InitOverride /\ [][NextOverride]_vars

\* C10: when "!unban <jid>" has returned, found a row or not, it has sent
\* set_affiliation(room, jid, "none") to every protected room that listed
\* the JID as outcast
C10_ManualOverride ==
    (unban["cmd"].pc = "done" /\ is_jid(unban["cmd"].identifier))
        => \A r \in ProtectedRooms :
               \/ bare_jid(unban["cmd"].identifier) \notin outcast[r]
               \/ Call("aff", r, bare_jid(unban["cmd"].identifier), "none")
                      \in calls["cmd"]

(***************************************************************************)
(* "!ban" of an account that is owner in the admin room: the account joins *)
(* room r1 as "G" without affiliation and the admin room as "a", as owner, *)
(* and leaves; "!ban" targets its JID and both nicknames; every call is    *)
(* answered                                                                *)
(***************************************************************************)
RefusalJoins == {<<"r1", NickGu, JB, "none">>, <<ADMIN_ROOM, NickA, JB, "owner">>}

InitRefusal == InitWith(<<>>, [r \in ProtectedRooms |-> {}])

NextRefusal ==
    \/ \E p \in RefusalJoins : muc_online(p[1], p[2], p[3], p[4])
    \/ \E p \in RefusalJoins : muc_offline(p[1], p[2])
    \/ muc_online_fetch
    \/ muc_online_done
    \/ /\ Len(store) < MaxBans
       /\ \E identifier \in {JB, NickG, NickA} :
             ban_all(identifier, NoUntil, "op", "spam")
    \/ ban_all_save
    \/ ban_all_next_room
    \/ ban_all_room_done
    \/ set_outcast_send
    \/ set_outcast_returns(Ok)
    \/ kick_nick_send
    \/ kick_nick_returns(Ok)
    \/ best_effort_kick_send
    \/ best_effort_kick_returns(Ok)

SpecRefusal == InitRefusal /\ [][NextRefusal]_vars

\* a step that is a call of ban_all
ban_all_step == ban' # ban /\ ban'.pc \in {"refused", "save"}

\* C9: ban_all refuses exactly when an occupant known in some room matches
\* the resolved JID or nickname and is owner or admin; a refused ban_all
\* has written no row, has sent no call and runs no apply_ban_to_room
C9_Refusal ==
    /\ [][ban_all_step =>
            /\ ban'.pc = "refused"
                  <=> \E room \in DOMAIN occupants :
                          admin_known(room, ban'.jid, ban'.nick)
            /\ ban'.pc = "refused" => store' = store]_vars
    /\ [](ban.pc = "refused" =>
            /\ calls["ban"] = {}
            /\ \A a \in applyBan : a.owner # "ban")

\* C9, its case: "!ban G" has been refused because the JID it resolved to
\* is owner in another room
C9_Witness ==
    /\ ban.pc = "refused"
    /\ ban.identifier = NickG
    /\ ban.jid = JB
    /\ \E i \in 1..Len(occupants_get(ADMIN_ROOM)) :
          occupants_get(ADMIN_ROOM)[i].affiliation = "owner"

(***************************************************************************)
(* Reconciliation and the ban table: runs of sync_bans_to_rooms (startup   *)
(* and "!sync") next to the sync of one room that follows "!room add",     *)
(* over rooms whose outcast lists hold JIDs the table does not have; every *)
(* call is answered                                                        *)
(***************************************************************************)
\* the table holds nothing or a ban of JB that ban_all has written
AdditiveStores == {<<>>, <<Row(JB, NickG, 0, "op", "spam")>>}

InitAdditive ==
    \E rows \in AdditiveStores, out \in OutcastLists : InitWith(rows, out)

NextAdditive ==
    \/ \E startup \in BOOLEAN : sync_bans_to_rooms(startup)
    \/ sync_load
    \/ \E room \in ProtectedRooms : sync_room_outcasts(room)
    \/ \E room \in ProtectedRooms : sync_room_insert(room)
    \/ \E room \in ProtectedRooms : sync_room_apply(room)
    \/ \E room \in ProtectedRooms : sync_room_done(room)
    \/ sync_done
    \/ \E room \in ProtectedRooms : sync_bans_to_rooms_for_single_room(room)
    \/ roomsync_load
    \/ roomsync_outcasts
    \/ roomsync_insert
    \/ roomsync_done
    \/ set_outcast_send
    \/ set_outcast_returns(Ok)
    \/ best_effort_kick_send
    \/ best_effort_kick_returns(Ok)

SpecAdditive == InitAdditive /\ [][NextAdditive]_vars

\* a step of a reconciliation run
reconciliation_step == sync' # sync \/ roomsync' # roomsync

\* every row of the table before the step is the same row, at the same
\* place, after it
rows_kept ==
    /\ Len(store') >= Len(store)
    /\ \A i \in 1..Len(store) : store'[i] = store[i]

\* C11: no step of a reconciliation run (startup, manual, or for one room
\* after "!room add") deletes or overwrites a row of the ban table: the rows
\* before the step are all there, unchanged, after it
C11_AdditiveOnly == [][reconciliation_step => rows_kept]_vars

\* C11, its case: a run of each kind is over, and the table has kept the
\* row it had and has gained the row of an adopted outcast
C11_Witness ==
    /\ sync.pc \in {"done", "raised"}
    /\ roomsync.pc \in {"done", "failed"}
    /\ Len(store) = 2
    /\ store[1] = Row(JB, NickG, 0, "op", "spam")
    /\ store[2].jid = JA
    /\ store[2].comment = "Recovered from room"

(***************************************************************************)
(* "!ban <jid>" and, once it has returned, "!unban <jid>", while the       *)
(* account sits in room r1 as "g"; every call may be answered, rejected or *)
(* time out                                                                *)
(***************************************************************************)
\* the cache: the account is in r1 under the nickname "g", r2 has seen no
\* presence
RollbackCache == [r \in {"r1"} |-> <<Occupant(NickG, JAres, "none")>>]

InitNoRollback == InitFull(<<>>, RollbackCache, [r \in ProtectedRooms |-> {}])

NextNoRollback ==
    \/ /\ ban.pc = "idle"
       /\ ban_all(JA, NoUntil, "op", "spam")
    \/ ban_all_save
    \/ ban_all_next_room
    \/ ban_all_room_done
    \/ set_outcast_send
    \/ set_outcast_returns(IqResults)
    \/ set_outcast_retry
    \/ kick_nick_send
    \/ kick_nick_returns(IqResults)
    \/ kick_nick_retry
    \/ best_effort_kick_send
    \/ best_effort_kick_returns(IqResults)
    \/ /\ ban.pc = "done"
       /\ unban["cmd"].pc = "idle"
       /\ unban_all(JA, "op")
    \/ unban_lookup_jid("cmd")
    \/ unban_delete("cmd")
    \/ unban_next_room("cmd")
    \/ unban_room_done("cmd")
    \/ clear_outcast_send
    \/ clear_outcast_returns(IqResults)
    \/ clear_outcast_retry
    \/ restore_role_send
    \/ restore_role_returns(IqResults)
    \/ restore_role_retry

SpecNoRollback == InitNoRollback /\ [][NextNoRollback]_vars

\* C12: from the REPLACE of ban_all on, through every answer, rejection and
\* timeout of its set_affiliation / set_role calls, and when it has
\* returned, the row it wrote is in the table (until "!unban" deletes it);
\* from the DELETE of unban_all on, through every result of its calls, the
\* table has no row for the JID
C12_NoRollback ==
    /\ (ban_written /\ ~unban_deleted("cmd"))
          => \E i \in 1..Len(store) :
                 store[i] = Row(JA, NickG, 0, "op", "spam")
    /\ unban_deleted("cmd") => rows_of(JA) = {}

\* C12, its case: the ban was rejected in r2 and made in r1, the unban was
\* rejected in r1, where the JID stays outcast, and has returned; the row
\* is gone
C12_Witness ==
    /\ unban["cmd"].pc = "done"
    /\ Answer(Call("aff", "r2", JA, "outcast"), "rejected") \in calls["ban"]
    /\ Answer(Call("role", "r1", NickG, "none"), "timeout") \in calls["ban"]
    /\ Answer(Call("aff", "r1", JA, "none"), "rejected") \in calls["cmd"]
    /\ JA \in outcast["r1"]
    /\ rows_of(JA) = {}

(***************************************************************************)
(* The expiry worker on a store that may fail: two temporary bans run out  *)
(* while unban_worker loops; any SELECT or DELETE of a tick may raise, and *)
(* calls may fail.  The event loop runs every coroutine that can run, and  *)
(* time passes.                                                            *)
(***************************************************************************)
InitWorkerFaults ==
    InitWith(<<Row(JA, None, 1, "op", "spam"), Row(None, NickG, 1, "op", "spam")>>,
             [r \in ProtectedRooms |-> {JA}])

NextWorkerFaults ==
    \/ tick
    \/ worker_scan
    \/ worker_scan_raises
    \/ worker_next
    \/ worker_unbanned
    \/ worker_caught
    \/ worker_wake
    \/ unban_lookup_jid("worker")
    \/ unban_lookup_nick("worker")
    \/ unban_delete("worker")
    \/ unban_raises("worker")
    \/ unban_next_room("worker")
    \/ unban_room_done("worker")
    \/ clear_outcast_send
    \/ clear_outcast_returns(IqResults)
    \/ clear_outcast_retry

\* no fairness for the failures of the store: they may or may not happen
FairWorkerFaults ==
    /\ WF_vars(tick)
    /\ WF_vars(worker_scan \/ worker_scan_raises)
    /\ WF_vars(worker_next)
    /\ WF_vars(worker_unbanned)
    /\ WF_vars(worker_caught)
    /\ WF_vars(worker_wake)
    /\ WF_vars(unban_lookup_jid("worker") \/ unban_lookup_nick("worker")
                 \/ unban_delete("worker") \/ unban_raises("worker"))
    /\ WF_vars(unban_next_room("worker"))
    /\ WF_vars(unban_room_done("worker"))
    /\ WF_vars(clear_outcast_send)
    /\ WF_vars(clear_outcast_returns(IqResults))
    /\ WF_vars(clear_outcast_retry)

SpecWorkerFaults ==
    InitWorkerFaults /\ [][NextWorkerFaults]_vars /\ FairWorkerFaults

\* C13: whatever has raised in a tick (the SELECT of the scan, or a
\* statement of an unban_all), the worker comes to its next SELECT, again
\* and again
C13_WorkerSurvives == []<>(worker.pc = "scan")

\* C13, its case: a tick has logged an exception, and the worker is at its
\* next SELECT
C13_Witness ==
    /\ worker.pc = "scan"
    /\ worker.logged
    /\ unban["worker"].pc = "raised"

(***************************************************************************)
(* The messages sent into the protected rooms: "!ban" and "!unban" of an   *)
(* account that sits in r1 as "g", by JID or by nickname, and of a         *)
(* nickname nobody has, under every setting of SHOW_BAN_IN_MUC and         *)
(* ALLOW_USER_COMMANDS_IN_PROTECTED_ROOMS; every call is answered          *)
(***************************************************************************)
NoticeTargets == {JA, NickG, NickA}

InitNotices ==
    \E show \in BOOLEAN, allow \in BOOLEAN :
        InitConfig(<<>>, RollbackCache, [r \in ProtectedRooms |-> {}],
                   show, allow)

NextNotices ==
    \/ /\ ban.pc = "idle"
       /\ \E identifier \in NoticeTargets :
             ban_all(identifier, NoUntil, "op", "spam")
    \/ ban_all_save
    \/ ban_all_next_room
    \/ ban_all_room_done
    \/ set_outcast_send
    \/ set_outcast_returns(Ok)
    \/ kick_nick_send
    \/ kick_nick_returns(Ok)
    \/ best_effort_kick_send
    \/ best_effort_kick_returns(Ok)
    \/ /\ ban.pc = "done"
       /\ unban["cmd"].pc = "idle"
       /\ unban_all(ban.identifier, "op")
    \/ unban_lookup_jid("cmd")
    \/ unban_lookup_nick("cmd")
    \/ unban_delete("cmd")
    \/ unban_next_room("cmd")
    \/ unban_room_done("cmd")
    \/ clear_outcast_send
    \/ clear_outcast_returns(Ok)
    \/ restore_role_send
    \/ restore_role_returns(Ok)

SpecNotices == InitNotices /\ [][NextNotices]_vars

\* C14: a message about a ban or an unban that is sent into a protected
\* room names the user by nickname, never by JID, and is sent only when
\* SHOW_BAN_IN_MUC is on
C14_RoomAnonymity ==
    \A n \in notices :
        /\ n.room \in ProtectedRooms
        /\ show_ban_in_muc
        /\ ~is_jid(n.display)

(***************************************************************************)
(* Commands and reconciliation side by side: one "!ban <jid>", one         *)
(* "!unban <jid>" and one "!sync" run in any interleaving on an empty      *)
(* table; every call is answered                                           *)
(***************************************************************************)
InitInterleave == InitWith(<<>>, [r \in ProtectedRooms |-> {}])

NextInterleave ==
    \/ /\ ban.pc = "idle"
       /\ ban_all(JA, NoUntil, "op", "spam")
    \/ ban_all_save
    \/ ban_all_next_room
    \/ ban_all_room_done
    \/ /\ unban["cmd"].pc = "idle"
       /\ unban_all(JA, "op")
    \/ unban_lookup_jid("cmd")
    \/ unban_lookup_nick("cmd")
    \/ unban_delete("cmd")
    \/ unban_next_room("cmd")
    \/ unban_room_done("cmd")
    \/ /\ sync.pc = "idle"
       /\ sync_bans_to_rooms(FALSE)
    \/ sync_load
    \/ \E room \in ProtectedRooms : sync_room_outcasts(room)
    \/ \E room \in ProtectedRooms : sync_room_insert(room)
    \/ \E room \in ProtectedRooms : sync_room_apply(room)
    \/ \E room \in ProtectedRooms : sync_room_done(room)
    \/ sync_done
    \/ set_outcast_send
    \/ set_outcast_returns(Ok)
    \/ clear_outcast_send
    \/ clear_outcast_returns(Ok)

SpecInterleave == InitInterleave /\ [][NextInterleave]_vars

\* the table has at most one row for each bare JID
one_row_per_identity ==
    \A i, j \in 1..Len(store) :
        (store[i].jid # None /\ bare_jid(store[i].jid) = bare_jid(store[j].jid))
            => i = j

\* C16: under any interleaving of "!ban", "!unban", the worker's ticks and
\* reconciliation runs, the table has at most one row per bare JID, and no
\* statement on the table fails because the JID already has a row (no
\* sync_room is ended by the IntegrityError of its INSERT)
C16_OneRecordNoConflict ==
    /\ one_row_per_identity
    /\ \A r \in DOMAIN sync.rooms : sync.rooms[r].pc # "raised"

(***************************************************************************)
(* One "!ban <jid>" while the account sits in r1 twice, as "g" and as "a"; *)
(* every call may be answered, rejected or time out                        *)
(***************************************************************************)
\* the cache: two sessions of the account in r1, none in r2
FaultsCache ==
    [r \in {"r1"} |-> <<Occupant(NickG, JAres, "none"),
                        Occupant(NickA, JA, "none")>>]

InitBanFaults == InitFull(<<>>, FaultsCache, [r \in ProtectedRooms |-> {}])

NextBanFaults ==
    \/ /\ ban.pc = "idle"
       /\ ban_all(JA, NoUntil, "op", "spam")
    \/ ban_all_save
    \/ ban_all_next_room
    \/ ban_all_room_done
    \/ set_outcast_send
    \/ set_outcast_returns(IqResults)
    \/ set_outcast_retry
    \/ kick_nick_send
    \/ kick_nick_returns(IqResults)
    \/ kick_nick_retry
    \/ best_effort_kick_send
    \/ best_effort_kick_returns(IqResults)

SpecBanFaults == InitBanFaults /\ [][NextBanFaults]_vars

\* the calls of apply_ban_to_room that are sent in a loop over range(3):
\* set_affiliation(outcast) of a room, and set_role(none) for an occupant
\* of r1
BanLoopCalls ==
    {Call("aff", r, JA, "outcast") : r \in ProtectedRooms}
        \cup {Call("role", "r1", n, "none") : n \in {NickG, NickA}}

\* the call of a sending recorded in the history
call_of(e) == <<e[1], e[2], e[3], e[4]>>

\* a call that was answered or rejected
settled(owner, c) ==
    \/ Answer(c, "ok") \in calls[owner]
    \/ Answer(c, "rejected") \in calls[owner]

\* C17: apply_ban_to_room sends set_affiliation(outcast), and set_role(none)
\* for each matching occupant, at most 3 times each; a call is sent again
\* only when it has timed out, and never once it has been answered or
\* rejected; when ban_all has returned, with whatever results, every room
\* has had its set_affiliation and the occupants of r1 their set_role
C17_BanRetryPolicy ==
    /\ [](\A e \in calls["ban"] :
            (Len(e) = 6 /\ call_of(e) \in BanLoopCalls)
                => /\ e[6] <= 3
                   /\ e[6] > 1 => Answer(call_of(e), "timeout") \in calls["ban"])
    /\ [][\A e \in new_sendings("ban") :
              /\ Answer(call_of(e), "ok") \notin calls["ban"]
              /\ Answer(call_of(e), "rejected") \notin calls["ban"]]_vars
    /\ [](ban.pc = "done" => BanLoopCalls \subseteq calls["ban"])

\* C17, its case: set_affiliation(outcast) has timed out three times in r1,
\* the kick of "g" there was sent a second time after a timeout and was
\* then rejected, and ban_all has returned
C17_Witness ==
    /\ ban.pc = "done"
    /\ Sent(Call("aff", "r1", JA, "outcast"), 3) \in calls["ban"]
    /\ Answer(Call("aff", "r1", JA, "outcast"), "ok") \notin calls["ban"]
    /\ Answer(Call("aff", "r1", JA, "outcast"), "rejected") \notin calls["ban"]
    /\ Sent(Call("role", "r1", NickG, "none"), 2) \in calls["ban"]
    /\ Sent(Call("role", "r1", NickG, "none"), 3) \notin calls["ban"]
    /\ Answer(Call("role", "r1", NickG, "none"), "rejected") \in calls["ban"]

(***************************************************************************)
(* One "!unban <jid>" for a stored ban while the account sits in r1 twice; *)
(* every call may be answered, rejected or time out                        *)
(***************************************************************************)
InitUnbanFaults ==
    InitFull(<<Row(JA, NickG, 0, "op", "spam")>>, FaultsCache,
             [r \in ProtectedRooms |-> {JA}])

NextUnbanFaults ==
    \/ /\ unban["cmd"].pc = "idle"
       /\ unban_all(JA, "op")
    \/ unban_lookup_jid("cmd")
    \/ unban_delete("cmd")
    \/ unban_next_room("cmd")
    \/ unban_room_done("cmd")
    \/ clear_outcast_send
    \/ clear_outcast_returns(IqResults)
    \/ clear_outcast_retry
    \/ restore_role_send
    \/ restore_role_returns(IqResults)
    \/ restore_role_retry

SpecUnbanFaults == InitUnbanFaults /\ [][NextUnbanFaults]_vars

\* the calls of apply_unban_to_room for this unban of a room:
\* set_affiliation(none), and set_role(participant) for the occupants of r1
UnbanRoomCalls(r) ==
    {Call("aff", r, JA, "none")}
        \cup (IF r = "r1"
               THEN {Call("role", r, n, "participant") : n \in {NickG, NickA}}
               ELSE {})

UnbanLoopCalls == UNION {UnbanRoomCalls(r) : r \in ProtectedRooms}

\* C18: apply_unban_to_room follows the retry policy of apply_ban_to_room
\* for set_affiliation(none) and for each set_role(participant): a call is
\* sent at most 3 times, again only after a timeout and never once it was
\* answered or rejected; it is given up only after an answer, a rejection
\* or the third timeout; and a rejected call leaves the other calls of its
\* room to be made
C18_UnbanRetryPolicy ==
    /\ [](\A e \in calls["cmd"] :
            (Len(e) = 6 /\ call_of(e) \in UnbanLoopCalls)
                => /\ e[6] <= 3
                   /\ e[6] > 1 => Answer(call_of(e), "timeout") \in calls["cmd"])
    /\ [][\A e \in new_sendings("cmd") : ~settled("cmd", call_of(e))]_vars
    /\ [](unban["cmd"].pc = "done" =>
            \A c \in UnbanLoopCalls \cap calls["cmd"] :
                /\ settled("cmd", c) \/ Sent(c, 3) \in calls["cmd"]
                /\ Answer(c, "rejected") \in calls["cmd"]
                       => UnbanRoomCalls(c[2]) \subseteq calls["cmd"])

\* C20: when unban_all has returned, set_affiliation(none) was sent in
\* every protected room, and in a room where it was not answered (rejected,
\* or timed out every time) set_role(participant) was still sent for each
\* matching occupant
C20_UnbanIndependent ==
    unban["cmd"].pc = "done" =>
        \A r \in ProtectedRooms :
            /\ Call("aff", r, JA, "none") \in calls["cmd"]
            /\ Answer(Call("aff", r, JA, "none"), "ok") \notin calls["cmd"]
                  => UnbanRoomCalls(r) \subseteq calls["cmd"]

\* C19: when ban_all has returned, a call of apply_ban_to_room that was not
\* answered (rejected, or timed out three times) has stopped none of the
\* others: the kicks of the other matching occupants of its room and the
\* set_affiliation of the other room were sent and carried to their own
\* end, and a set_affiliation that was answered has taken effect
C19_SiblingIsolation ==
    ban.pc = "done" =>
        \A c \in BanLoopCalls :
            Answer(c, "ok") \notin calls["ban"] =>
                \A d \in BanLoopCalls \ {c} :
                    /\ d \in calls["ban"]
                    /\ settled("ban", d) \/ Sent(d, 3) \in calls["ban"]
                    /\ (d[1] = "aff" /\ Answer(d, "ok") \in calls["ban"])
                           => JA \in outcast[d[2]]

\* C19, its case: set_affiliation(outcast) was rejected in r1 and the kick
\* of "g" there timed out three times, yet "a" was kicked from r1 and the
\* account is an outcast of r2
C19_Witness ==
    /\ ban.pc = "done"
    /\ Answer(Call("aff", "r1", JA, "outcast"), "rejected") \in calls["ban"]
    /\ Sent(Call("role", "r1", NickG, "none"), 3) \in calls["ban"]
    /\ ~settled("ban", Call("role", "r1", NickG, "none"))
    /\ Answer(Call("role", "r1", NickA, "none"), "ok") \in calls["ban"]
    /\ JA \notin outcast["r1"]
    /\ JA \in outcast["r2"]


\* C26: the enforcement of one "!ban" is started for all protected rooms at
\* once: while apply_ban_to_room runs for one room, every other protected
\* room has its own apply_ban_to_room running or already over (no room
\* waits for another to finish)
C26_ConcurrentRooms ==
    \A a \in applyBan :
        a.owner = "ban" =>
            \A r \in protected_rooms \ {a.room} :
                \/ r \in ban.visited
                \/ \E b \in applyBan : b.owner = "ban" /\ b.room = r
(***************************************************************************)
(* A reconciliation run whose room r1 may fail: the listing of r1 may be   *)
(* refused, a "!ban" of the orphan of r1 may get in before its INSERT, and  *)
(* every call of the enforcement may be answered or rejected               *)
(***************************************************************************)
\* the answers that end a call at once
Unretried == {"ok", "rejected"}

\* the table holds a ban of the nickname "g"; r1 has the orphan JA, r2 the
\* orphan JB
InitIsolate ==
    InitWith(<<Row(None, NickG, 0, "op", "spam")>>,
             [r \in ProtectedRooms |-> IF r = "r1" THEN {JA} ELSE {JB}])

NextIsolate ==
    \/ /\ sync.pc = "idle"
       /\ \E startup \in BOOLEAN : sync_bans_to_rooms(startup)
    \/ sync_load
    \/ \E room \in ProtectedRooms : sync_room_outcasts(room)
    \/ sync_room_fetch_fails("r1")
    \/ \E room \in ProtectedRooms : sync_room_insert(room)
    \/ \E room \in ProtectedRooms : sync_room_apply(room)
    \/ \E room \in ProtectedRooms : sync_room_done(room)
    \/ sync_done
    \/ /\ ban.pc = "idle"
       /\ sync.pc = "gather"
       /\ sync.rooms["r1"].pc = "insert"
       /\ ban_all(JA, NoUntil, "op", "spam")
    \/ ban_all_save
    \/ ban_all_next_room
    \/ ban_all_room_done
    \/ set_outcast_send
    \/ set_outcast_returns(Unretried)
    \/ best_effort_kick_send
    \/ best_effort_kick_returns(Unretried)

SpecIsolate == InitIsolate /\ [][NextIsolate]_vars

\* the sync_room of r2 has done all its work: it has run to its end, the
\* orphan of r2 has its one row, and the stored ban of "g" was enforced in
\* r2
r2_completed ==
    /\ sync.rooms["r2"].pc = "done"
    /\ Cardinality({i \in 1..Len(store) : store[i].jid = JB}) = 1
    /\ Call("role", "r2", NickG, "none") \in calls["sync"]

FramePresences ==
    {<<ADMIN_ROOM, NickA, JAres, "owner">>, <<"r1", NickA, None, "none">>}

\* the answers of get_users_by_affiliation(ADMIN_ROOM, "owner") and
\* (..., "admin")
OwnerLists == {<<JA>>}
AdminLists == {<<>>, <<JB>>}

\* a temporary ban of JA, enforced in both rooms, is about to run out
InitFrame ==
    InitWith(<<Row(JA, NickG, 1, "op", "spam")>>,
             [r \in ProtectedRooms |-> {JA}])

NextFrame ==
    \/ tick
    \/ /\ now = 0
       /\ \E p \in FramePresences : muc_online(p[1], p[2], p[3], p[4])
    \/ /\ now = 0
       /\ muc_offline(ADMIN_ROOM, NickA)
    \/ muc_online_fetch
    \/ /\ now = 0
       /\ adminsync.pc = "idle"
       /\ sync_admins
    \/ \E owners \in OwnerLists : sync_admins_owners(owners)
    \/ \E admins \in AdminLists : sync_admins_admins(admins)
    \/ sync_admins_fails
    \/ /\ ban.pc = "idle"
       /\ unban["worker"].pc = "done"
       /\ ban_all(JB, NoUntil, "op", "spam")
    \/ ban_all_save
    \/ ban_all_next_room
    \/ ban_all_room_done
    \/ /\ ban.pc = "done"
       /\ unban["cmd"].pc = "idle"
       /\ unban_all(JB, "op")
    \/ \E w \in {"cmd", "worker"} : unban_lookup_jid(w)
    \/ \E w \in {"cmd", "worker"} : unban_delete(w)
    \/ \E w \in {"cmd", "worker"} : unban_next_room(w)
    \/ \E w \in {"cmd", "worker"} : unban_room_done(w)
    \/ /\ unban["cmd"].pc = "done"
       /\ sync.pc = "idle"
       /\ sync_bans_to_rooms(FALSE)
    \/ sync_load
    \/ \E room \in ProtectedRooms : sync_room_outcasts(room)
    \/ \E room \in ProtectedRooms : sync_room_apply(room)
    \/ sync_done
    \/ worker_scan
    \/ worker_next
    \/ worker_unbanned
    \/ worker_wake
    \/ /\ reply = NoReply
       /\ cmd_why(JA)
    \/ set_outcast_send
    \/ set_outcast_returns(Ok)
    \/ clear_outcast_send
    \/ clear_outcast_returns(Ok)

SpecFrame == InitFrame /\ [][NextFrame]_vars

\* the apply_unban_to_room coroutines, without the place of their iterators
unban_tasks(S) == {[u EXCEPT !.pos = 0] : u \in S}

\* a step of ban_all, unban_all, a reconciliation run, the expiry worker, a
\* query, or of the enforcement one of them awaits
operation_step ==
    \/ ban' # ban
    \/ unban' # unban
    \/ sync' # sync
    \/ roomsync' # roomsync
    \/ worker' # worker
    \/ reply' # reply
    \/ store' # store
    \/ sem' # sem
    \/ applyBan' # applyBan
    \/ unban_tasks(applyUnban') # unban_tasks(applyUnban)

\* the occupant map of the room is what it was
map_kept(r) ==
    /\ r \in DOMAIN occupants' <=> r \in DOMAIN occupants
    /\ r \in DOMAIN occupants => occupants'[r] = occupants[r]

\* C24 as claimed: a step that changes an occupant map is a step of no
\* operation but muc_online and muc_offline: not of ban_all, unban_all, a
\* reconciliation run, the expiry worker or a query, and not of sync_admins
C24_OccupantsFrame ==
    [][occupants' # occupants
          => ~operation_step /\ adminsync' = adminsync]_vars

\* C24 amended: a step that changes an occupant map is a step of muc_online,
\* of muc_offline or of sync_admins, and sync_admins changes the map of the
\* admin room only
C24_OccupantsFrameAdmin ==
    [][occupants' # occupants
          => /\ ~operation_step
             /\ adminsync' # adminsync
                   => \A r \in Rooms \ {ADMIN_ROOM} : map_kept(r)]_vars

\* C24, its case: presences and sync_admins have written the cache (the
\* admin JB, who is not in the admin room, has an entry under the bare JID),
\* and the worker's unban, "!ban", "!unban", "!sync" and "!why" have run
C24_Witness ==
    /\ adminsync.pc = "done"
    /\ \E i \in 1..Len(occupants_get(ADMIN_ROOM)) :
          /\ occupants[ADMIN_ROOM][i].nick = JB
          /\ occupants[ADMIN_ROOM][i].role = "participant"
    /\ \E i \in 1..Len(occupants_get("r1")) : occupants["r1"][i].nick = NickA
    /\ unban["worker"].pc = "done"
    /\ sync.pc = "done"
    /\ reply # NoReply


(***************************************************************************)
(* "!room remove r2" and "!room add r2" while an account that is banned    *)
(* enters and leaves r2; every call is answered                            *)
(***************************************************************************)
\* a permanent ban of JA that r1 enforces and r2 does not yet
InitRooms ==
    InitWith(<<Row(JA, NickG, 0, "op", "spam")>>,
             [r \in ProtectedRooms |-> IF r = "r1" THEN {JA} ELSE {}])

NextRooms ==
    \/ cmd_room_remove("r2")
    \/ cmd_room_removed
    \/ cmd_room_add("r2")
    \/ cmd_room_added
    \/ room_add_sync_target
    \/ room_add_others
    \/ room_add_sync_other
    \/ roomsync_load
    \/ roomsync_outcasts
    \/ roomsync_done
    \/ muc_online("r2", NickG, JAres, "none")
    \/ muc_online_fetch
    \/ muc_online_done
    \/ muc_offline("r2", NickG)
    \/ set_outcast_send
    \/ set_outcast_returns(Ok)
    \/ kick_nick_send
    \/ kick_nick_returns(Ok)
    \/ best_effort_kick_send
    \/ best_effort_kick_returns(Ok)

SpecRooms == InitRooms /\ [][NextRooms]_vars

\* "!room remove" of the room r has completed, and r has not been added
\* again
removed(r) ==
    /\ roomcmd.pc = "done"
    /\ roomcmd.action = "remove"
    /\ roomcmd.target = r

\* "!room add" of the room r has completed
added(r) ==
    /\ roomcmd.pc = "done"
    /\ roomcmd.action = "add"
    /\ roomcmd.target = r

\* this step handles no join or leave notification of the room r: the
\* occupant map of r stays, and no muc_online of r looks for bans
not_handled(r) ==
    /\ map_kept(r)
    /\ (online'.pc = "fetch" /\ online.pc # "fetch") => online'.room # r

\* C27: when "!room remove r" has completed, r is neither in the rooms
\* table nor in self.protected_rooms, the bot has left r and r's
\* got_online / got_offline have no handlers, so that no later presence of r
\* changes an occupant map or starts an enforcement; when "!room add r" has
\* completed, r is in the table and in the set, the bot has joined r and the
\* handlers are there
C27_RoomLifecycle ==
    /\ [](\A r \in ProtectedRooms :
             removed(r) => /\ r \notin rooms_table
                           /\ r \notin protected_rooms
                           /\ r \notin joined
                           /\ r \notin listeners)
    /\ [](\A r \in ProtectedRooms :
             added(r) => /\ r \in rooms_table
                         /\ r \in protected_rooms
                         /\ r \in joined
                         /\ r \in listeners)
    /\ [][\A r \in ProtectedRooms :
             removed(r) /\ removed(r)' => not_handled(r)]_vars

(***************************************************************************)
(* One "!ban <jid>" or one "!unban <jid>" while the account sits in r1     *)
(* twice, and its sessions leave r1 and come back while apply_ban_to_room  *)
(* or apply_unban_to_room of r1 waits for a set_role or sleeps after a     *)
(* timeout                                                                 *)
(***************************************************************************)
InitMutate ==
    InitFull(<<Row(JA, NickG, 0, "op", "spam")>>, FaultsCache,
             [r \in ProtectedRooms |-> {JA}])

\* the results of a set_role
RoleResults == {"ok", "timeout"}

\* apply_ban_to_room of r1 awaits its gather of kick_nick, or
\* apply_unban_to_room of r1 awaits a set_role or a sleep of step 2
suspended_in_r1 ==
    \/ \E a \in applyBan :
          a.owner = "ban" /\ a.room = "r1" /\ a.pc = "gather"
    \/ \E u \in applyUnban :
          u.owner = "cmd" /\ u.room = "r1" /\ u.pc \in {"fly2", "sleep2"}

NextMutate ==
    \/ /\ ban.pc = "idle"
       /\ unban["cmd"].pc = "idle"
       /\ ban_all(JA, NoUntil, "op", "spam")
    \/ ban_all_save
    \/ ban_all_next_room
    \/ ban_all_room_done
    \/ /\ ban.pc = "idle"
       /\ unban["cmd"].pc = "idle"
       /\ unban_all(JA, "op")
    \/ unban_lookup_jid("cmd")
    \/ unban_delete("cmd")
    \/ unban_next_room("cmd")
    \/ unban_room_done("cmd")
    \/ /\ suspended_in_r1
       /\ \E n \in {NickG, NickA} : muc_offline("r1", n)
    \/ /\ suspended_in_r1
       /\ muc_online("r1", NickA, JAres, "none")
    \/ muc_online_fetch
    \/ muc_online_done
    \/ set_outcast_send
    \/ set_outcast_returns(Ok)
    \/ kick_nick_send
    \/ kick_nick_returns(RoleResults)
    \/ kick_nick_retry
    \/ clear_outcast_send
    \/ clear_outcast_returns(Ok)
    \/ restore_role_send
    \/ restore_role_returns(RoleResults)
    \/ restore_role_retry

SpecMutate == InitMutate /\ [][NextMutate]_vars

\* the nicknames of the occupants of r1 as apply_ban_to_room and
\* apply_unban_to_room of r1 find them: the sessions of the account
snapshot_nicks ==
    {FaultsCache["r1"][i].nick : i \in 1..Len(FaultsCache["r1"])}

\* C28: a got_online or got_offline of the room that arrives while
\* apply_ban_to_room or apply_unban_to_room awaits a call or a sleep does no
\* harm: no apply_unban_to_room raises, and when the request is over a
\* set_role was sent for every matching occupant the room had when the
\* occupants were read
C28_TolerantReaders ==
    /\ unban_errors = {}
    /\ ban.pc = "done" =>
          \A n \in snapshot_nicks :
              Sent(Call("role", "r1", n, "none"), 1) \in calls["ban"]
    /\ unban["cmd"].pc = "done" =>
          \A n \in snapshot_nicks :
              Sent(Call("role", "r1", n, "participant"), 1) \in calls["cmd"]

(***************************************************************************)
(* A temporary ban runs out; between the worker's SELECT of the expired    *)
(* bans and its unban_all a "!ban" of the same JID replaces the row with a *)
(* permanent ban; every call is answered                                   *)
(***************************************************************************)
InitReplace ==
    InitWith(<<Row(JA, None, 1, "op", "spam")>>,
             [r \in ProtectedRooms |-> {JA}])

\* the worker has read the expired row of JA and has not called unban_all
worker_holds_expired == worker.pc = "loop" /\ worker.rows = <<JA>>

NextReplace ==
    \/ tick
    \/ worker_scan
    \/ worker_next
    \/ worker_unbanned
    \/ worker_wake
    \/ unban_lookup_jid("worker")
    \/ unban_delete("worker")
    \/ unban_next_room("worker")
    \/ unban_room_done("worker")
    \/ /\ worker_holds_expired
       /\ ban.pc = "idle"
       /\ ban_all(JA, NoUntil, "op2", "flood")
    \/ /\ worker_holds_expired
       /\ ban_all_save
    \/ ban_all_next_room
    \/ ban_all_room_done
    \/ set_outcast_send
    \/ set_outcast_returns(Ok)
    \/ clear_outcast_send
    \/ clear_outcast_returns(Ok)

SpecReplace == InitReplace /\ [][NextReplace]_vars

\* the permanent ban of the second command is in the table
replaced == ban.issuer = "op2" /\ ban_written

\* C29: the worker deletes only what is expired when it deletes: once a
\* "!ban" has replaced the expired row the worker has read with a permanent
\* ban, before the worker's unban_all of it, the table keeps the permanent
\* row of the JID and the JID stays outcast in every protected room
C29_WorkerDeletesExpiredOnly ==
    replaced =>
        /\ \E i \in rows_of(JA) : store[i].until = 0 /\ store[i].issuer = "op2"
        /\ \A r \in ProtectedRooms : JA \in outcast[r]

(***************************************************************************)
(* One "!unban <jid>" of a ban that both rooms enforce, next to a join of  *)
(* the account in r1 and a reconciliation run that begin before the unban  *)
(* is over; every call is answered                                         *)
(***************************************************************************)
InitStale ==
    InitWith(<<Row(JA, None, 0, "op", "spam")>>,
             [r \in ProtectedRooms |-> {JA}])

NextStale ==
    \/ /\ unban["cmd"].pc = "idle"
       /\ unban_all(JA, "op")
    \/ unban_lookup_jid("cmd")
    \/ unban_delete("cmd")
    \/ unban_next_room("cmd")
    \/ unban_room_done("cmd")
    \/ /\ online.pc = "idle"
       /\ unban["cmd"].pc # "done"
       /\ muc_online("r1", NickG, JAres, "none")
    \/ muc_online_fetch
    \/ muc_online_done
    \/ /\ sync.pc = "idle"
       /\ unban["cmd"].pc # "done"
       /\ sync_bans_to_rooms(FALSE)
    \/ sync_load
    \/ \E room \in ProtectedRooms : sync_room_outcasts(room)
    \/ \E room \in ProtectedRooms : sync_room_insert(room)
    \/ \E room \in ProtectedRooms : sync_room_apply(room)
    \/ \E room \in ProtectedRooms : sync_room_done(room)
    \/ sync_done
    \/ set_outcast_send
    \/ set_outcast_returns(Ok)
    \/ kick_nick_send
    \/ kick_nick_returns(Ok)
    \/ clear_outcast_send
    \/ clear_outcast_returns(Ok)
    \/ restore_role_send
    \/ restore_role_returns(Ok)

SpecStale == InitStale /\ [][NextStale]_vars

\* the unban is over, and so is every muc_online, every reconciliation run
\* and every apply_ban_to_room and apply_unban_to_room
all_over ==
    /\ unban["cmd"].pc = "done"
    /\ online.pc \in {"idle", "done", "skipped"}
    /\ sync.pc \in {"idle", "done", "raised"}
    /\ applyBan = {}
    /\ applyUnban = {}

\* C30: when "!unban <jid>" has returned and every muc_online and
\* reconciliation run that was under way has ended, with every call
\* answered and no "!ban" of the JID, the JID is outcast in no protected room
C30_UnbanPrevails ==
    all_over => \A r \in ProtectedRooms : JA \notin outcast[r]

(***************************************************************************)
(* One "!unban <jid>" of a ban that both rooms enforce, whose              *)
(* set_affiliation(none) a room may reject, and a reconciliation run when  *)
(* the unban is over                                                       *)
(***************************************************************************)
InitLeftover ==
    InitWith(<<Row(JA, None, 0, "op", "spam")>>,
             [r \in ProtectedRooms |-> {JA}])

NextLeftover ==
    \/ /\ unban["cmd"].pc = "idle"
       /\ unban_all(JA, "op")
    \/ unban_lookup_jid("cmd")
    \/ unban_delete("cmd")
    \/ unban_next_room("cmd")
    \/ unban_room_done("cmd")
    \/ clear_outcast_send
    \/ clear_outcast_returns(Unretried)
    \/ /\ unban["cmd"].pc = "done"
       /\ sync.pc = "idle"
       /\ \E startup \in BOOLEAN : sync_bans_to_rooms(startup)
    \/ sync_load
    \/ \E room \in ProtectedRooms : sync_room_outcasts(room)
    \/ \E room \in ProtectedRooms : sync_room_insert(room)
    \/ \E room \in ProtectedRooms : sync_room_apply(room)
    \/ \E room \in ProtectedRooms : sync_room_done(room)
    \/ sync_done
    \/ set_outcast_send
    \/ set_outcast_returns(Ok)

SpecLeftover == InitLeftover /\ [][NextLeftover]_vars

\* the unban's set_affiliation(none) of the room was answered
cleared(r) == Answer(clear_call(r), "ok") \in calls["cmd"]

\* C31 as claimed: once the unban has deleted the row of the JID, no
\* reconciliation run writes a row for it, and none sets it outcast in a
\* room whose set_affiliation(none) was answered
C31_UnbanNotReversed ==
    /\ unban_deleted("cmd") => rows_of(JA) = {}
    /\ unban["cmd"].pc = "done" =>
          \A r \in ProtectedRooms : cleared(r) => JA \notin outcast[r]

\* C31 amended: after the unban a reconciliation run writes a row for the
\* JID only as the adoption of an outcast entry the unban has left (a room
\* rejected set_affiliation(none)), and it does adopt it: the run ends with
\* one permanent row of the JID, tagged by the run; when every room
\* answered, no run writes a row or sets the JID outcast
C31_LeftoverAdopted ==
    /\ unban_deleted("cmd") =>
          \A i \in rows_of(JA) :
              /\ \E r \in ProtectedRooms : ~cleared(r)
              /\ rows_of(JA) = {i}
              /\ store[i].until = 0
              /\ store[i].issuer = IF sync.startup THEN "sync_startup"
                                   ELSE "sync"
    /\ (sync.pc = "done" /\ \E r \in ProtectedRooms : ~cleared(r))
          => rows_of(JA) # {}
    /\ (unban["cmd"].pc = "done" /\ \A r \in ProtectedRooms : cleared(r))
          => \A r \in ProtectedRooms : JA \notin outcast[r]

\* C31, its case: r2 rejected the unban's set_affiliation(none), r1 answered
\* it, and the run that followed has adopted the JID and set it outcast in
\* r1 again
C31_Witness ==
    /\ sync.pc = "done"
    /\ cleared("r1")
    /\ Answer(clear_call("r2"), "rejected") \in calls["cmd"]
    /\ rows_of(JA) # {}
    /\ JA \in outcast["r1"]

(***************************************************************************)
(* One "!unban <jid|nick>" on a table that holds the bans of two accounts, *)
(* saved under one nickname or under two; every call is answered           *)
(***************************************************************************)
\* the tables: JB was banned while it used the nickname "g" that JA had
\* used, or under the nickname "a"
SharedNickStores ==
    {<<Row(JA, NickG, 0, "op", "spam"), Row(JB, NickG, 0, "op", "spam")>>,
     <<Row(JA, NickG, 0, "op", "spam"), Row(JB, NickA, 0, "op", "spam")>>}

\* what "!unban" is given
SharedNickTargets == {JA, JB, NickG, NickGu}

InitSharedNick ==
    \E rows \in SharedNickStores :
        InitWith(rows, [r \in ProtectedRooms |-> {JA, JB}])

NextSharedNick ==
    \/ /\ unban["cmd"].pc = "idle"
       /\ \E identifier \in SharedNickTargets : unban_all(identifier, "op")
    \/ unban_lookup_jid("cmd")
    \/ unban_lookup_nick("cmd")
    \/ unban_delete("cmd")
    \/ unban_next_room("cmd")
    \/ unban_room_done("cmd")
    \/ clear_outcast_send
    \/ clear_outcast_returns(Ok)

SpecSharedNick == InitSharedNick /\ [][NextSharedNick]_vars

\* the row is in the table
in_table(rows, x) == \E i \in 1..Len(rows) : rows[i] = x

\* the row is not the target's: unban_all has resolved a JID and the row
\* has another, or the row has neither the JID nor the nickname resolved
not_of_target(t, x) ==
    \/ x.jid # None /\ unban_jid(t) # None /\ x.jid # unban_jid(t)
    \/ /\ x.jid = None \/ x.jid # unban_jid(t)
       /\ x.nick = None \/ unban_nick(t) = None
             \/ Lower(x.nick) # unban_nick(t)

\* C32: the DELETE of unban_all removes rows of its target only: a row
\* with another JID than the one resolved stays as it is, also under the
\* nickname of the target's row, and so does every row that has neither the
\* JID nor the nickname of the target; no row is changed or added
C32_DeletesTargetOnly ==
    [][(unban["cmd"].pc = "delete" /\ unban'["cmd"].pc = "rooms")
          => /\ \A i \in 1..Len(store) :
                   not_of_target(unban["cmd"], store[i])
                       => in_table(store', store[i])
             /\ \A i \in 1..Len(store') : in_table(store, store'[i])]_vars

(***************************************************************************)
(* "!unban <jid|nick>" while an admin sits in r1 under the nickname "G",   *)
(* next to a plain occupant; the table is empty or holds a ban of the      *)
(* admin's JID that a reconciliation run has adopted                       *)
(***************************************************************************)
DemoteCache ==
    [r \in {"r1"} |-> <<Occupant(NickGu, JB, "admin"),
                        Occupant(NickA, JA, "none")>>]

DemoteStores == {<<>>, <<Row(JB, None, 0, "sync", "Recovered from room")>>}

DemoteTargets == {NickG, NickGu, JB, NickA}

InitDemote ==
    \E rows \in DemoteStores :
        InitFull(rows, DemoteCache, [r \in ProtectedRooms |-> {}])

NextDemote ==
    \/ /\ unban["cmd"].pc = "idle"
       /\ \E identifier \in DemoteTargets : unban_all(identifier, "op")
    \/ unban_lookup_jid("cmd")
    \/ unban_lookup_nick("cmd")
    \/ unban_fallback("cmd")
    \/ unban_delete("cmd")
    \/ unban_next_room("cmd")
    \/ unban_room_done("cmd")
    \/ clear_outcast_send
    \/ clear_outcast_returns(IqResults)
    \/ clear_outcast_retry
    \/ restore_role_send
    \/ restore_role_returns(IqResults)
    \/ restore_role_retry

SpecDemote == InitDemote /\ [][NextDemote]_vars

\* the occupant of the room under the nickname is owner, admin or moderator
privileged(room, nick) ==
    \E i \in 1..Len(occupants_get(room)) :
        /\ occupants[room][i].nick = nick
        /\ \/ occupants[room][i].affiliation \in AdminAffiliations
           \/ occupants[room][i].role = "moderator"

\* C33: apply_unban_to_room sends no set_role for an occupant who is owner
\* or admin or has the role moderator, also when "!unban" names a nickname
\* without a ban that is, in another case, the nickname of that occupant
C33_UnbanSparesAdmins ==
    [][\A e \in new_sendings("cmd") :
          e[1] = "role" => ~privileged(e[2], e[3])]_vars

\* C34: every set_affiliation and set_role is sent to a room that is in
\* self.protected_rooms when it is sent; a got_online of a room that is not
\* (the admin room, a room that "!room remove" has removed) leads to no call
C34_CallsToProtectedRooms ==
    [][\A owner \in DOMAIN calls :
          \A e \in new_sendings(owner) : e[2] \in protected_rooms']_vars

\* the coroutines that wait for a permit
waiting_for_permit ==
    {a \in applyBan : a.pc \in {"step1", "step3"}}
        \cup {a \in applyBan : \E kk \in a.kicks : kk.pc = "acquire"}
        \cup {u \in applyUnban : u.pc \in {"step1", "step2"}}

\* the coroutines that sleep between two attempts
backing_off ==
    {a \in applyBan : a.pc = "sleep1"}
        \cup {a \in applyBan : \E kk \in a.kicks : kk.pc = "sleep"}
        \cup {u \in applyUnban : u.pc \in {"sleep1", "sleep2"}}

\* C35: a permit is out exactly while a set_affiliation or set_role is in
\* flight: each call in flight has one permit, a call that was answered,
\* rejected or timed out has given it back, and a coroutine that sleeps
\* between attempts has none; so all permits are back when no call is in
\* flight, and a coroutine waits for a permit only while a call is in
\* flight that will give one back
C35_PermitDiscipline ==
    /\ sem >= 0
    /\ sem + InFlight = Permits
    /\ InFlight = 0 => sem = Permits
    /\ (waiting_for_permit # {} /\ ~acquire_permit) => InFlight > 0

\* C35, its case: every permit is out, a coroutine waits for one, and
\* another one, whose call has timed out, sleeps without a permit
C35_Witness ==
    /\ sem = 0
    /\ waiting_for_permit # {}
    /\ backing_off # {}

=============================================================================
